---- MODULE Spec2Model ----
(***************************************************************************)
(* A model of go-map-schema: CompareMapToStruct (schema.go) walks the      *)
(* fields of a destination struct type, looks each one up in a source map  *)
(* and records the fields that are missing or whose value is not           *)
(* convertible to the declared type.                                       *)
(*                                                                         *)
(* Strings are sequences of chunks: a chunk is a run of characters that is *)
(* never cut by the code (a ',' is its own chunk, and so are the pointer   *)
(* marker '*', the '.' separator and the first letter of a type name).     *)
(* "" is << >>, "-," is <<"-", ",">>, "*string" is <<"*", "s", "tring">>.  *)
(* float64 values are stored as twice their value (n = 3 is 1.5) so that   *)
(* a fractional component is expressible with integers.                    *)
(***************************************************************************)
EXTENDS Integers, Sequences, FiniteSets, TLC

\* ---------------------------------------------------------------- bounds
\* A source map holds at most MaxKeys keys at each nesting level.
MaxKeys == 2

\* Source maps nest at most MaxDepth levels below the top-level map.
MaxDepth == 2

\* ------------------------------------------------------------ reflection
NoFields == << >>

\* A struct field as reflect.StructField shows it.
Field(name, tag, anonymous, type) ==
    [Name |-> name, Tag |-> tag, Anonymous |-> anonymous, Type |-> type]

Basic(kind, name) ==
    [kind |-> kind, name |-> name, elem |-> "", fields |-> NoFields]

Ptr(elem) ==
    [kind |-> "ptr", name |-> << >>, elem |-> elem, fields |-> NoFields]

Struct(name, fields) ==
    [kind |-> "struct", name |-> name, elem |-> "", fields |-> fields]

\* The types declared by the tests (reflect.Type, keyed by an identifier).
TestTypes ==
    [ t \in { "string", "bool", "int", "int8", "uint", "float64", "*string",
              "map[string]interface {}", "map[string]string",
              "TestStruct", "TestStructEmbedded", "TestStructPtr",
              "TestStructTags", "TestStructUnsigned",
              "TestStructNested", "struct Cat", "*struct A", "struct A" } |->
        CASE t = "string"  -> Basic("string", <<"s", "tring">>)
          [] t = "bool"    -> Basic("bool", <<"b", "ool">>)
          [] t = "int"     -> Basic("int", <<"i", "nt">>)
          [] t = "int8"    -> Basic("int8", <<"i", "nt8">>)
          [] t = "uint"    -> Basic("uint", <<"u", "int">>)
          [] t = "float64" -> Basic("float64", <<"f", "loat64">>)
          [] t = "*string" -> Ptr("string")
          [] t = "map[string]interface {}" -> Basic("map", << >>)
          [] t = "map[string]string"       -> Basic("map", << >>)
          [] t = "TestStruct" ->
                Struct(<<"T", "estStruct">>,
                       << Field(<<"Foo">>, << >>, FALSE, "string"),
                          Field(<<"Bar">>, << >>, FALSE, "int"),
                          Field(<<"Baz">>, << >>, FALSE, "float64") >>)
          [] t = "TestStructEmbedded" ->
                Struct(<<"T", "estStructEmbedded">>,
                       << Field(<<"TestStruct">>, << >>, TRUE, "TestStruct"),
                          Field(<<"Butt">>, << >>, FALSE, "bool") >>)
          [] t = "TestStructPtr" ->
                Struct(<<"T", "estStructPtr">>,
                       << Field(<<"Ptr">>, << >>, FALSE, "*string") >>)
          [] t = "TestStructTags" ->
                Struct(<<"T", "estStructTags">>,
                       << Field(<<"LowercaseA">>, <<"a">>, FALSE, "string"),
                          Field(<<"IgnoreMe">>, <<"-">>, FALSE, "string"),
                          Field(<<"WithOptions">>, <<",", "omitempty">>, FALSE, "string"),
                          Field(<<"Hyphen">>, <<"-", ",">>, FALSE, "string") >>)
          [] t = "TestStructUnsigned" ->
                Struct(<<"T", "estStructUnsigned">>,
                       << Field(<<"Foo">>, << >>, FALSE, "uint") >>)
          \* The Cat branch of TestStructNested (its User and C fields are
          \* left out to keep the source universe small).
          [] t = "TestStructNested" ->
                Struct(<<"T", "estStructNested">>,
                       << Field(<<"Cat">>, << >>, FALSE, "struct Cat") >>)
          [] t = "struct Cat" ->
                Struct(<< >>,
                       << Field(<<"A">>, << >>, FALSE, "*struct A"),
                          Field(<<"B">>, << >>, FALSE, "bool") >>)
          [] t = "*struct A" -> Ptr("struct A")
          [] t = "struct A" ->
                Struct(<< >>,
                       << Field(<<"Baz">>, << >>, FALSE, "string") >>) ]

\* Further destination types a caller can pass: an embedded pointer to a
\* struct, an embedded struct tagged "-", two fields with one external name,
\* a tag with a name and an option, a type that refers to itself, a struct
\* with a value field, a pointer field and a nested struct after them, and
\* a struct that embeds a struct that embeds a struct.
CallerTypes ==
    [ t \in { "*TestStructPtr", "TestStructEmbeddedPtr",
              "TestStructEmbeddedSkip", "TestStructDup", "*Node", "Node",
              "TestStructMixed", "TestStructEmbedded2" } |->
        CASE t = "*TestStructPtr" -> Ptr("TestStructPtr")
          [] t = "TestStructMixed" ->
                Struct(<<"T", "estStructMixed">>,
                       << Field(<<"Foo">>, << >>, FALSE, "string"),
                          Field(<<"Ptr">>, << >>, FALSE, "*string"),
                          Field(<<"Inner">>, << >>, FALSE, "TestStructPtr") >>)
          [] t = "TestStructEmbedded2" ->
                Struct(<<"T", "estStructEmbedded2">>,
                       << Field(<<"TestStructEmbedded">>, << >>, TRUE, "TestStructEmbedded"),
                          Field(<<"Ptr">>, << >>, FALSE, "*string") >>)
          [] t = "TestStructEmbeddedPtr" ->
                Struct(<<"T", "estStructEmbeddedPtr">>,
                       << Field(<<"TestStructPtr">>, << >>, TRUE, "*TestStructPtr"),
                          Field(<<"Butt">>, << >>, FALSE, "bool") >>)
          [] t = "TestStructEmbeddedSkip" ->
                Struct(<<"T", "estStructEmbeddedSkip">>,
                       << Field(<<"TestStructUnsigned">>, <<"-">>, TRUE, "TestStructUnsigned"),
                          Field(<<"Butt">>, << >>, FALSE, "bool") >>)
          [] t = "TestStructDup" ->
                Struct(<<"T", "estStructDup">>,
                       << Field(<<"Foo">>, << >>, FALSE, "string"),
                          Field(<<"Bar">>, <<"Foo", ",", "omitempty">>, FALSE, "int") >>)
          [] t = "*Node" -> Ptr("Node")
          [] t = "Node" ->
                Struct(<<"N", "ode">>,
                       << Field(<<"Next">>, << >>, FALSE, "*Node") >>) ]

\* The types of TestSimpleTypeName that the structs above do not use, and
\* named types defined over a numeric kind (type MyInt int).
LangTypes ==
    [ t \in { "int16", "int32", "int64", "uint8", "uint16", "uint32", "uint64",
              "float32", "*int", "*uint", "*float32", "*TestStruct",
              "MyInt", "MyInt8", "MyUint", "MyFloat", "*MyInt" } |->
        CASE t = "int16"   -> Basic("int16", <<"i", "nt16">>)
          [] t = "int32"   -> Basic("int32", <<"i", "nt32">>)
          [] t = "int64"   -> Basic("int64", <<"i", "nt64">>)
          [] t = "uint8"   -> Basic("uint8", <<"u", "int8">>)
          [] t = "uint16"  -> Basic("uint16", <<"u", "int16">>)
          [] t = "uint32"  -> Basic("uint32", <<"u", "int32">>)
          [] t = "uint64"  -> Basic("uint64", <<"u", "int64">>)
          [] t = "float32" -> Basic("float32", <<"f", "loat32">>)
          [] t = "*int"    -> Ptr("int")
          [] t = "*uint"   -> Ptr("uint")
          [] t = "*float32" -> Ptr("float32")
          [] t = "*TestStruct" -> Ptr("TestStruct")
          [] t = "MyInt"   -> Basic("int", <<"M", "yInt">>)
          [] t = "MyInt8"  -> Basic("int8", <<"M", "yInt8">>)
          [] t = "MyUint"  -> Basic("uint", <<"M", "yUint">>)
          [] t = "MyFloat" -> Basic("float64", <<"M", "yFloat">>)
          [] t = "*MyInt"  -> Ptr("MyInt") ]

\* The fields of struct type t of the table, every embedded struct replaced
\* by its own fields at the position of the embedding, recursively.
RECURSIVE Inlined(_, _)
Inlined(table, t) ==
    LET RECURSIVE From(_)
        From(j) ==
            IF j > Len(table[t].fields) THEN << >>
            ELSE LET f == table[t].fields[j]
                 IN  (IF f.Anonymous /\ table[f.Type].kind = "struct"
                      THEN Inlined(table, f.Type)
                      ELSE << f >>) \o From(j + 1)
    IN  From(1)

\* The struct types that embed a struct.
Embedding == { "TestStructEmbedded", "TestStructEmbeddedSkip", "TestStructEmbedded2" }

\* The identifier of embedding type t with its embedded fields written out.
InlinedOf(t) ==
    CASE t = "TestStructEmbedded" -> "TestStructEmbeddedInlined"
      [] t = "TestStructEmbeddedSkip" -> "TestStructEmbeddedSkipInlined"
      [] t = "TestStructEmbedded2" -> "TestStructEmbedded2Inlined"

\* For each embedding type the struct a caller gets by writing the embedded
\* struct's fields directly at the position of the embedding.
InlinedTypes ==
    [ t \in { InlinedOf(e) : e \in Embedding } |->
        LET e == CHOOSE x \in Embedding : InlinedOf(x) = t
        IN  Struct((TestTypes @@ CallerTypes)[e].name \o <<"Inlined">>,
                   Inlined(TestTypes @@ CallerTypes, e)) ]

Types == TestTypes @@ CallerTypes @@ LangTypes @@ InlinedTypes

Kind(t) == Types[t].kind
Name(t) == Types[t].name
Elem(t) == Types[t].elem
NumField(t) == Len(Types[t].fields)
FieldAt(t, i) == Types[t].fields[i]

\* The struct types a destination pointer points to.
DstStructs ==
    { "TestStruct", "TestStructEmbedded", "TestStructPtr", "TestStructTags",
      "TestStructUnsigned", "TestStructNested", "TestStructEmbeddedPtr",
      "TestStructEmbeddedSkip", "TestStructDup", "Node", "TestStructMixed" }

\* ---------------------------------------------------------------- values
EmptyMap == [k \in {} |-> k]

\* A dynamic value (interface{}): k is the identifier of its dynamic type
\* ("" for the nil interface), n its number, m its entries when it is a map.
Value(k, n, m) == [k |-> k, n |-> n, m |-> m]

NullVal == Value("", 0, EmptyMap)
StringVal == Value("string", 0, EmptyMap)
BoolVal == Value("bool", 0, EmptyMap)
FloatVal(halves) == Value("float64", halves, EmptyMap)
IntVal(n) == Value("int", n, EmptyMap)
UintVal(n) == Value("uint", n, EmptyMap)
MapVal(m) == Value("map[string]interface {}", 0, m)
StringMapVal == Value("map[string]string", 0, EmptyMap)

\* reflect.Value.IsValid of reflect.ValueOf(v).
IsValid(v) == v.k # ""

\* reflect.Value.CanAddr: a value obtained from reflect.ValueOf is never
\* addressable.
CanAddr(v) == FALSE

\* reflect.Value.IsNil (only consulted for addressable values).
IsNil(v) == FALSE

\* ------------------------------------------------------------- lang.go
\* DetailedTypeName takes a type and returns it verbatim.
DetailedTypeName(t) ==
    IF Kind(t) = "ptr" THEN <<"*">> \o Name(Elem(t)) ELSE Name(t)

\* SimpleTypeName: floats are "float", unsigned ints "uint", ints "int".
SimpleTypeName(t) ==
    LET isPtr == Kind(t) = "ptr"
        elemType == IF isPtr THEN Elem(t) ELSE t
        out == CASE Kind(elemType) \in {"uint", "uint8", "uint16", "uint32", "uint64"}
                        -> <<"u", "int">>
                 [] Kind(elemType) \in {"int8", "int16", "int32", "int64"}
                        -> <<"i", "nt">>
                 [] Kind(elemType) \in {"float32", "float64"}
                        -> <<"f", "loat">>
                 [] OTHER -> Name(elemType)
    IN  IF isPtr THEN <<"*">> \o out ELSE out

\* strings.ToLower of a one-letter chunk (the capitals type names start
\* with).
ToLower(c) ==
    CASE c = "A" -> "a" [] c = "E" -> "e" [] c = "I" -> "i" [] c = "O" -> "o"
      [] c = "U" -> "u" [] c = "M" -> "m" [] c = "N" -> "n" [] c = "T" -> "t"
      [] OTHER -> c

\* strings.TrimLeft(t, "*").
RECURSIVE TrimLeftStars(_)
TrimLeftStars(t) ==
    IF t # << >> /\ Head(t) = "*" THEN TrimLeftStars(Tail(t)) ELSE t

\* TypeNameStartsWithVowel returns true if the type name starts with a
\* vowel; t[:1] panics when nothing is left of t without its asterisks.
TypeNameStartsWithVowel(t) ==
    IF t = << >> THEN [panics |-> FALSE, result |-> FALSE]
    ELSE IF TrimLeftStars(t) = << >> THEN [panics |-> TRUE, result |-> FALSE]
    ELSE [panics |-> FALSE,
          result |-> ToLower(Head(TrimLeftStars(t))) \in { "a", "e", "i", "o" }]

\* TypeNameWithArticle returns the type name with an indefinite article.
TypeNameWithArticle(t) ==
    IF t = <<"n", "ull">> THEN [panics |-> FALSE, s |-> t]
    ELSE IF TypeNameStartsWithVowel(t).panics THEN [panics |-> TRUE, s |-> << >>]
    ELSE IF TypeNameStartsWithVowel(t).result
         THEN [panics |-> FALSE, s |-> <<"an ">> \o t]
         ELSE [panics |-> FALSE, s |-> <<"a ">> \o t]

\* ------------------------------------------------------------ schema.go
\* strings.Index(s, c), counted from 1; 0 when c does not occur.
Index(s, c) ==
    IF \E i \in 1..Len(s) : s[i] = c
    THEN CHOOSE i \in 1..Len(s) : s[i] = c /\ \A j \in 1..(i - 1) : s[j] # c
    ELSE 0

\* parseField without the "-" case: the tag is taken as a name.
parseFieldNoSkip(f) ==
    LET tag == f.Tag
        i == Index(tag, ",")
    IN  IF tag = << >> THEN [name |-> f.Name, ignore |-> FALSE]
        ELSE IF i # 0
             THEN IF i = 1 THEN [name |-> f.Name, ignore |-> FALSE]
                  ELSE [name |-> SubSeq(tag, 1, i - 1), ignore |-> FALSE]
        ELSE [name |-> tag, ignore |-> FALSE]

\* parseField without the fallback to the declared name: ",omitempty"
\* yields the empty name.
parseFieldNoFallback(f) ==
    LET tag == f.Tag
        i == Index(tag, ",")
    IN  IF tag = << >> THEN [name |-> f.Name, ignore |-> FALSE]
        ELSE IF tag = <<"-">> THEN [name |-> << >>, ignore |-> TRUE]
        ELSE IF i # 0
             THEN [name |-> SubSeq(tag, 1, i - 1), ignore |-> FALSE]
        ELSE [name |-> tag, ignore |-> FALSE]

\* parseField returns the field's JSON name.
parseField(f) ==
    LET tag == f.Tag
        i == Index(tag, ",")
    IN  IF tag = << >> THEN [name |-> f.Name, ignore |-> FALSE]
        ELSE IF tag = <<"-">> THEN [name |-> << >>, ignore |-> TRUE]
        ELSE IF i # 0
             THEN IF i = 1 THEN [name |-> f.Name, ignore |-> FALSE]
                  ELSE [name |-> SubSeq(tag, 1, i - 1), ignore |-> FALSE]
        ELSE [name |-> tag, ignore |-> FALSE]

\* isFloatType returns true if the type is a floating point.
isFloatType(t) == Kind(t) \in {"float32", "float64"}

\* isIntegerType returns whether the type is an integer and if it's unsigned.
isIntegerType(t) ==
    CASE Kind(t) \in {"int", "int8", "int16", "int32", "int64"}
            -> [yes |-> TRUE, unsigned |-> FALSE]
      [] Kind(t) \in {"uint", "uint8", "uint16", "uint32", "uint64"}
            -> [yes |-> TRUE, unsigned |-> TRUE]
      [] OTHER -> [yes |-> FALSE, unsigned |-> FALSE]

\* isStructType returns whether the type is a struct or a pointer to it.
isStructType(t) ==
    CASE Kind(t) = "struct" -> TRUE
      [] Kind(t) = "ptr" -> Kind(Elem(t)) = "struct"
      [] OTHER -> FALSE

\* reflect.Type.ConvertibleTo for the kinds of the model: numbers convert
\* to numbers, integers to string, and a type to a type of the same kind
\* when that kind is string or bool; other types only to themselves.
ConvertibleTo(from, to) ==
    LET numeric(t) == isIntegerType(t).yes \/ isFloatType(t)
    IN  \/ numeric(from) /\ numeric(to)
        \/ isIntegerType(from).yes /\ Kind(to) = "string"
        \/ Kind(from) = Kind(to) /\ Kind(to) \in {"string", "bool"}
        \/ from = to

\* The outcome of a hook: it returns a boolean, or it panics.
Returns(b) == [panics |-> FALSE, result |-> b]
Panics == [panics |-> TRUE, result |-> FALSE]

\* reflect.Value.Int panics unless the value's kind is a signed integer.
IntPanics(v) == ~ (isIntegerType(v.k).yes /\ ~ isIntegerType(v.k).unsigned)

\* DefaultCanConvert without the math.Trunc(f) != f check.
DefaultCanConvertNoTrunc(t, v) ==
    LET isPtr == Kind(t) = "ptr"
        dstType == IF isPtr THEN Elem(t) ELSE t
        isStruct == Kind(dstType) = "struct"
        dstInt == isIntegerType(dstType)
    IN  IF ~ IsValid(v) \/ (CanAddr(v) /\ IsNil(v)) THEN Returns(isPtr)
        ELSE IF isStruct THEN Returns(Kind(v.k) = "map")
        ELSE IF ~ ConvertibleTo(v.k, dstType) THEN Returns(FALSE)
        ELSE IF dstInt.yes /\ isFloatType(v.k)
             THEN IF dstInt.unsigned /\ v.n < 0 THEN Returns(FALSE)
                  ELSE Returns(TRUE)
        ELSE IF dstInt.yes /\ isIntegerType(v.k).yes
             THEN IF dstInt.unsigned
                  THEN IF IntPanics(v) THEN Panics
                       ELSE IF v.n < 0 THEN Returns(FALSE) ELSE Returns(TRUE)
                  ELSE Returns(TRUE)
        ELSE Returns(TRUE)

\* DefaultCanConvert taking a nil value for the zero value of any type.
DefaultCanConvertNilAccepted(t, v) ==
    LET isPtr == Kind(t) = "ptr"
        dstType == IF isPtr THEN Elem(t) ELSE t
        isStruct == Kind(dstType) = "struct"
        dstInt == isIntegerType(dstType)
    IN  IF ~ IsValid(v) \/ (CanAddr(v) /\ IsNil(v)) THEN Returns(TRUE)
        ELSE IF isStruct THEN Returns(Kind(v.k) = "map")
        ELSE IF ~ ConvertibleTo(v.k, dstType) THEN Returns(FALSE)
        ELSE IF dstInt.yes /\ isFloatType(v.k)
             THEN IF v.n % 2 # 0 THEN Returns(FALSE)
                  ELSE IF dstInt.unsigned /\ v.n < 0 THEN Returns(FALSE)
                  ELSE Returns(TRUE)
        ELSE IF dstInt.yes /\ isIntegerType(v.k).yes
             THEN IF dstInt.unsigned
                  THEN IF IntPanics(v) THEN Panics
                       ELSE IF v.n < 0 THEN Returns(FALSE) ELSE Returns(TRUE)
                  ELSE Returns(TRUE)
        ELSE Returns(TRUE)

\* DefaultCanConvert without dstType = t.Elem() for a pointer.
DefaultCanConvertPtrKept(t, v) ==
    LET isPtr == Kind(t) = "ptr"
        dstType == t
        isStruct == Kind(IF isPtr THEN Elem(t) ELSE t) = "struct"
        dstInt == isIntegerType(dstType)
    IN  IF ~ IsValid(v) \/ (CanAddr(v) /\ IsNil(v)) THEN Returns(isPtr)
        ELSE IF isStruct THEN Returns(Kind(v.k) = "map")
        ELSE IF ~ ConvertibleTo(v.k, dstType) THEN Returns(FALSE)
        ELSE IF dstInt.yes /\ isFloatType(v.k)
             THEN IF v.n % 2 # 0 THEN Returns(FALSE)
                  ELSE IF dstInt.unsigned /\ v.n < 0 THEN Returns(FALSE)
                  ELSE Returns(TRUE)
        ELSE IF dstInt.yes /\ isIntegerType(v.k).yes
             THEN IF dstInt.unsigned
                  THEN IF IntPanics(v) THEN Panics
                       ELSE IF v.n < 0 THEN Returns(FALSE) ELSE Returns(TRUE)
                  ELSE Returns(TRUE)
        ELSE Returns(TRUE)

\* DefaultCanConvert returns whether value v is convertible to type t.
DefaultCanConvert(t, v) ==
    LET isPtr == Kind(t) = "ptr"
        dstType == IF isPtr THEN Elem(t) ELSE t
        isStruct == Kind(dstType) = "struct"
        dstInt == isIntegerType(dstType)
    IN  IF ~ IsValid(v) \/ (CanAddr(v) /\ IsNil(v)) THEN Returns(isPtr)
        ELSE IF isStruct THEN Returns(Kind(v.k) = "map")
        ELSE IF ~ ConvertibleTo(v.k, dstType) THEN Returns(FALSE)
        ELSE IF dstInt.yes /\ isFloatType(v.k)
             THEN IF v.n % 2 # 0 THEN Returns(FALSE)
                  ELSE IF dstInt.unsigned /\ v.n < 0 THEN Returns(FALSE)
                  ELSE Returns(TRUE)
        ELSE IF dstInt.yes /\ isIntegerType(v.k).yes
             THEN IF dstInt.unsigned
                  THEN IF IntPanics(v) THEN Panics
                       ELSE IF v.n < 0 THEN Returns(FALSE) ELSE Returns(TRUE)
                  ELSE Returns(TRUE)
        ELSE Returns(TRUE)

\* The hooks a caller can put in CompareOpts: the package's own functions
\* and the two closures of TestCompareMapToStruct_CompareOptsUsesProvidedFuncs.
convertibleFunc(t, v) == Returns(FALSE)

typeNameFunc(t) == << >>

\* opts.ConvertibleFunc(t, v) for the function value h.
CallConvertibleFunc(h, t, v) ==
    CASE h = "DefaultCanConvert" -> DefaultCanConvert(t, v)
      [] h = "convertibleFunc" -> convertibleFunc(t, v)

\* opts.TypeNameFunc(t) for the function value h.
CallTypeNameFunc(h, t) ==
    CASE h = "DetailedTypeName" -> DetailedTypeName(t)
      [] h = "SimpleTypeName" -> SimpleTypeName(t)
      [] h = "typeNameFunc" -> typeNameFunc(t)

\* A *CompareOpts is << >> (nil) or a one-element sequence holding the
\* struct; a nil function value is "".
CompareOpts(c, n) == << [ConvertibleFunc |-> c, TypeNameFunc |-> n] >>

\* ResolveOpts filling in both defaults as soon as one hook is nil: the
\* hook the caller did supply is lost.
ResolveOptsBothDefaults(o) ==
    IF o = << >> \/ o[1].ConvertibleFunc = "" \/ o[1].TypeNameFunc = ""
    THEN [caller |-> o,
          local |-> CompareOpts("DefaultCanConvert", "DetailedTypeName")]
    ELSE [caller |-> o, local |-> o]

\* ResolveOpts without the copy: the defaults are written into the
\* caller's object.
ResolveOptsInPlace(o) ==
    IF o = << >>
    THEN [caller |-> o,
          local |-> CompareOpts("DefaultCanConvert", "DetailedTypeName")]
    ELSE LET c == IF o[1].ConvertibleFunc = "" THEN "DefaultCanConvert"
                  ELSE o[1].ConvertibleFunc
             n == IF o[1].TypeNameFunc = "" THEN "DetailedTypeName"
                  ELSE o[1].TypeNameFunc
         IN  [caller |-> CompareOpts(c, n), local |-> CompareOpts(c, n)]

\* The first lines of CompareMapToStruct: the options the walk uses (local)
\* and the caller's options object after them (caller).
ResolveOpts(o) ==
    IF o = << >>
    THEN [caller |-> o,
          local |-> CompareOpts("DefaultCanConvert", "DetailedTypeName")]
    ELSE LET copy == o[1]
             c == IF copy.ConvertibleFunc = "" THEN "DefaultCanConvert"
                  ELSE copy.ConvertibleFunc
             n == IF copy.TypeNameFunc = "" THEN "DetailedTypeName"
                  ELSE copy.TypeNameFunc
         IN  [caller |-> o, local |-> CompareOpts(c, n)]

\* The dst argument as reflect.ValueOf shows it: valid is FALSE for an
\* untyped nil; ptr says whether it is a pointer, type is the type it holds
\* or points to, isNil whether the pointer is nil.
Dst(valid, ptr, type, isNil) ==
    [valid |-> valid, ptr |-> ptr, type |-> type, isNil |-> isNil]

\* v.Kind() of reflect.ValueOf(dst).
DstKind(d) ==
    IF ~ d.valid THEN "invalid" ELSE IF d.ptr THEN "ptr" ELSE Kind(d.type)

\* v.Elem().Kind(): the zero Value (kind invalid) for a nil pointer.
DstElemKind(d) == IF d.isNil THEN "invalid" ELSE Kind(d.type)

\* InvalidDst with the kind taken from the pointer's type, not from the
\* value it points to: a nil pointer to a struct passes.
InvalidDstByType(d) ==
    ~ d.valid \/ DstKind(d) # "ptr" \/ Kind(d.type) # "struct"

\* The precondition on dst (the first condition of line 489).
InvalidDst(d) ==
    ~ d.valid \/ DstKind(d) # "ptr" \/ DstElemKind(d) # "struct"

\* The src check with len(src) == 0 in place of src == nil.
SrcIsEmpty(s) == s.isNil \/ DOMAIN s.m = {}

\* The precondition on src (src == nil, line 491).
SrcIsNil(s) == s.isNil

\* ----------------------------------------------------- the inputs drawn
\* The values a key of a source map holds, nested maps aside.
LeafVals ==
    { NullVal, StringVal, BoolVal, FloatVal(3), FloatVal(4), UintVal(1),
      MapVal(EmptyMap), StringMapVal }

\* The struct type a struct-shaped field type denotes.
StructOf(t) == IF Kind(t) = "ptr" THEN Elem(t) ELSE t

\* The keys worth putting in a source for type t: the declared and the
\* external names of its fields, embedded structs flattened, each with the
\* struct type nested under it ("" when the field is not struct-shaped).
RECURSIVE KeySlots(_)
KeySlots(t) ==
    UNION { LET f == FieldAt(t, i)
                p == parseField(f)
            IN  IF f.Anonymous /\ Kind(f.Type) = "struct" THEN KeySlots(f.Type)
                ELSE { [key |-> f.Name, type |-> ""] }
                     \cup (IF f.Tag = <<"-">>
                           THEN { [key |-> f.Tag, type |-> ""] } ELSE {})
                     \cup (IF p.ignore THEN {}
                           ELSE { [key |-> p.name,
                                   type |-> IF isStructType(f.Type)
                                            THEN StructOf(f.Type) ELSE ""] })
          : i \in 1..NumField(t) }

RECURSIVE SrcMaps(_, _)
RECURSIVE MapsOver(_, _, _)

\* The values drawn for key k of a source for type t, d levels of nesting
\* being left.
ValsFor(t, k, d) ==
    LeafVals \cup
    UNION { IF s.key = k /\ s.type # "" /\ d > 0
            THEN { MapVal(m) : m \in SrcMaps(s.type, d - 1) } ELSE {}
          : s \in KeySlots(t) }

MapsOver(keys, t, d) ==
    IF keys = {} THEN { EmptyMap }
    ELSE LET k == CHOOSE x \in keys : TRUE
             rest == MapsOver(keys \ {k}, t, d)
         IN  rest \cup
             { (k :> v) @@ m :
                   m \in { r \in rest : Cardinality(DOMAIN r) < MaxKeys },
                   v \in ValsFor(t, k, d) }

\* The source maps drawn for a destination of type t.
SrcMaps(t, d) == MapsOver({ s.key : s \in KeySlots(t) }, t, d)

\* A nil map[string]interface{}.
NilSrc == [isNil |-> TRUE, m |-> EmptyMap]

\* A non-nil map[string]interface{} with the entries m.
Src(m) == [isNil |-> FALSE, m |-> m]

\* The dst arguments of TestCompareMapToStruct_BadDstErrors, a nil pointer
\* to a struct, and a pointer to each destination struct.
BadDsts ==
    { Dst(FALSE, FALSE, "", TRUE), Dst(TRUE, FALSE, "int", FALSE),
      Dst(TRUE, FALSE, "string", FALSE), Dst(TRUE, TRUE, "string", FALSE),
      Dst(TRUE, FALSE, "TestStruct", FALSE), Dst(TRUE, TRUE, "TestStruct", TRUE) }

GoodDsts == { Dst(TRUE, TRUE, t, FALSE) : t \in DstStructs }

\* The opts arguments: nil, the zero CompareOpts, and objects with one or
\* both hooks supplied.
OptsValues ==
    { << >>, CompareOpts("", ""), CompareOpts("convertibleFunc", "typeNameFunc"),
      CompareOpts("convertibleFunc", ""), CompareOpts("", "SimpleTypeName") }

\* ------------------------------------------------------------- the state
VARIABLES
    dst,      \* the dst argument
    src,      \* the src argument
    opts,     \* the caller's *CompareOpts
    lopts,    \* the opts variable of CompareMapToStruct after its first lines
    results,  \* the *CompareResults: << >> (nil) or << the struct >>
    err,      \* the error returned
    stack,    \* the calls of compare in progress, innermost last
    called,   \* the hooks that have been invoked
    pc,       \* "start", "walk", "done" (returned) or "panic" (aborted)
    input,    \* the argument of a function applied on its own
    output    \* << >>, or << what the function returned for input >>

vars == << dst, src, opts, lopts, results, err, stack, called, pc,
           input, output >>

\* The variables of a call of CompareMapToStruct.
callVars == << dst, src, opts, lopts, results, err, stack, called, pc >>

\* A call of compare(t, src, opts, results) about to look at field i. nested
\* is TRUE when checkNestedFields made the call for field fieldName, with the
\* list lengths it remembered.
Frame(t, m, nested, fieldName, mismatchCount, missingCount) ==
    [t |-> t, src |-> m, i |-> 1, nested |-> nested, fieldName |-> fieldName,
     mismatchCount |-> mismatchCount, missingCount |-> missingCount]

FieldMismatch(field, expected, actual) ==
    [Field |-> field, Expected |-> expected, Actual |-> actual, Path |-> << >>]

FieldMissing(field) == [Field |-> field, Path |-> << >>]

\* AppendMismatch falling through to the missing branch as well.
AppendMismatchAndMissing(r, mismatch) ==
    [r EXCEPT !.MismatchedFields = Append(@, mismatch),
              !.MissingFields = Append(@, [Field |-> mismatch.Field,
                                           Path |-> << >>])]

\* results.MismatchedFields = append(results.MismatchedFields, mismatch)
AppendMismatch(r, mismatch) ==
    [r EXCEPT !.MismatchedFields = Append(@, mismatch)]

\* AppendMissing putting the new entry in front of the list.
AppendMissingInFront(r, missing) ==
    [r EXCEPT !.MissingFields = << missing >> \o @]

\* results.MissingFields = append(results.MissingFields, missing)
AppendMissing(r, missing) ==
    [r EXCEPT !.MissingFields = Append(@, missing)]

\* FieldMismatch.Message returns the field mismatch error as a string.
Message(f) ==
    LET expected == TypeNameWithArticle(f.Expected)
        actual == TypeNameWithArticle(f.Actual)
    IN  IF expected.panics \/ actual.panics THEN [panics |-> TRUE, s |-> << >>]
        ELSE [panics |-> FALSE,
              s |-> <<"expected ">> \o expected.s \o <<" but it's ">> \o actual.s]

\* A value of the map[string]interface{} built by Errors that is a string
\* (isString would be FALSE, and m the entries, for a map).
StringEntry(s) == [isString |-> TRUE, s |-> s, m |-> EmptyMap]

\* The loop of Errors from mismatch i on, m being the map so far.
RECURSIVE ErrorsLoop(_, _, _)
ErrorsLoop(list, i, m) ==
    IF i > Len(list) THEN [panics |-> FALSE, isNil |-> FALSE, m |-> m]
    ELSE IF Message(list[i]).panics
         THEN [panics |-> TRUE, isNil |-> FALSE, m |-> EmptyMap]
         ELSE ErrorsLoop(list, i + 1,
                         (list[i].Field :> StringEntry(Message(list[i]).s)) @@ m)

\* CompareResults.Errors returns a MismatchError containing the type
\* errors, nil if there were none.
Errors(cr) ==
    IF Len(cr.MismatchedFields) = 0
    THEN [panics |-> FALSE, isNil |-> TRUE, m |-> EmptyMap]
    ELSE ErrorsLoop(cr.MismatchedFields, 1, EmptyMap)

\* FieldNameWithPath returns the field name with its path: the ancestors in
\* order, then the name, joined by ".".
RECURSIVE FieldNameWithPath(_, _)
FieldNameWithPath(name, path) ==
    IF path = << >> THEN name
    ELSE Head(path) \o <<".">> \o FieldNameWithPath(name, Tail(path))

\* FieldMissing.String returning the bare field name.
StringOfFieldOnly(f) ==
    f.Field

\* FieldMissing.String returns the field name with its path.
String(f) ==
    FieldNameWithPath(f.Field, f.Path)

\* FieldMismatch.MessageWithField returns the field mismatch error as a
\* string, and includes the field name with its path.
MessageWithField(f) ==
    LET expected == TypeNameWithArticle(f.Expected)
        actual == TypeNameWithArticle(f.Actual)
    IN  IF expected.panics \/ actual.panics THEN [panics |-> TRUE, s |-> << >>]
        ELSE [panics |-> FALSE,
              s |-> <<"expected \"">> \o FieldNameWithPath(f.Field, f.Path)
                    \o <<"\" to be ">> \o expected.s
                    \o <<" but it's ">> \o actual.s]

Top == stack[Len(stack)]

\* The field the innermost call of compare is looking at.
CurField == FieldAt(Top.t, Top.i)

\* The stack once the innermost call has moved on to its next field.
\* Advance stepping over the field behind the current one as well.
AdvanceByTwo == [stack EXCEPT ![Len(stack)].i = @ + 2]

Advance == [stack EXCEPT ![Len(stack)].i = @ + 1]

Init ==
    /\ dst \in BadDsts \cup GoodDsts
    /\ src \in { NilSrc } \cup
               { Src(m) : m \in IF dst \in GoodDsts
                                THEN SrcMaps(dst.type, MaxDepth)
                                ELSE { EmptyMap } }
    /\ opts \in OptsValues
    /\ lopts = << >>
    /\ results = << >>
    /\ err = "nil"
    /\ stack = << >>
    /\ called = {}
    /\ pc = "start"
    /\ input = << >>
    /\ output = << >>

\* Call with the results kept in one accumulator for all calls instead of
\* being allocated by each call.
CallKeepsResults ==
    /\ pc = "start"
    /\ opts' = ResolveOpts(opts).caller
    /\ lopts' = ResolveOpts(opts).local
    /\ IF InvalidDst(dst)
       THEN /\ err' = "ErrInvalidDst"
            /\ pc' = "done"
            /\ UNCHANGED << results, stack >>
       ELSE IF SrcIsNil(src)
       THEN /\ err' = "ErrNilSrc"
            /\ pc' = "done"
            /\ UNCHANGED << results, stack >>
       ELSE /\ results' = IF results = << >>
                          THEN << [MismatchedFields |-> << >>,
                                   MissingFields |-> << >>] >>
                          ELSE results
            /\ stack' = << Frame(dst.type, src.m, FALSE, << >>, 0, 0) >>
            /\ pc' = "walk"
            /\ UNCHANGED err
    /\ UNCHANGED << dst, src, called, input, output >>

\* CompareMapToStruct up to its call of compare.
Call ==
    /\ pc = "start"
    /\ opts' = ResolveOpts(opts).caller
    /\ lopts' = ResolveOpts(opts).local
    /\ IF InvalidDst(dst)
       THEN /\ err' = "ErrInvalidDst"
            /\ pc' = "done"
            /\ UNCHANGED << results, stack >>
       ELSE IF SrcIsNil(src)
       THEN /\ err' = "ErrNilSrc"
            /\ pc' = "done"
            /\ UNCHANGED << results, stack >>
       ELSE /\ results' = << [MismatchedFields |-> << >>, MissingFields |-> << >>] >>
            /\ stack' = << Frame(dst.type, src.m, FALSE, << >>, 0, 0) >>
            /\ pc' = "walk"
            /\ UNCHANGED err
    /\ UNCHANGED << dst, src, called, input, output >>

\* AddPath putting fieldName behind the path instead of in front of it.
AddPathBehind(list, count, fieldName) ==
    [ mi \in 1..Len(list) |->
        IF mi > count
        THEN [list[mi] EXCEPT !.Path = @ \o <<fieldName>>]
        ELSE list[mi] ]

\* The lists after checkNestedFields has put fieldName in front of the path
\* of every entry added since it remembered the lengths.
AddPath(list, count, fieldName) ==
    [ mi \in 1..Len(list) |->
        IF mi > count
        THEN [list[mi] EXCEPT !.Path = <<fieldName>> \o @]
        ELSE list[mi] ]

\* compare has looked at every field and returns: to checkNestedFields,
\* which completes the paths, to the compare that called it for an embedded
\* field, or to CompareMapToStruct, which returns the results.
Return ==
    /\ pc = "walk"
    /\ Top.i > NumField(Top.t)
    /\ results' =
         IF Top.nested
         THEN << [MismatchedFields |->
                      AddPath(results[1].MismatchedFields, Top.mismatchCount,
                              Top.fieldName),
                  MissingFields |->
                      AddPath(results[1].MissingFields, Top.missingCount,
                              Top.fieldName)] >>
         ELSE results
    /\ stack' = SubSeq(stack, 1, Len(stack) - 1)
    /\ pc' = IF Len(stack) = 1 THEN "done" ELSE "walk"
    /\ UNCHANGED << dst, src, opts, lopts, err, called, input, output >>

\* The field is tagged "-": continue with the next one.
SkipField ==
    /\ pc = "walk"
    /\ Top.i <= NumField(Top.t)
    /\ parseField(CurField).ignore
    /\ stack' = Advance
    /\ UNCHANGED << dst, src, opts, lopts, results, err, called, pc,
                    input, output >>

\* EmbeddedField going through checkNestedFields: the embedded struct's
\* name becomes a segment of the paths.
EmbeddedFieldAsNested ==
    /\ pc = "walk"
    /\ Top.i <= NumField(Top.t)
    /\ ~ parseField(CurField).ignore
    /\ CurField.Anonymous
    /\ IF Kind(CurField.Type) = "struct"
       THEN /\ stack' = Append(Advance,
                               Frame(CurField.Type, Top.src, TRUE, CurField.Name,
                                     Len(results[1].MismatchedFields),
                                     Len(results[1].MissingFields)))
            /\ UNCHANGED pc
       ELSE /\ pc' = "panic"
            /\ UNCHANGED stack
    /\ UNCHANGED << dst, src, opts, lopts, results, err, called, input, output >>

\* The field is embedded: compare is called on its type with the same src.
\* t.NumField() panics when that type is not a struct.
EmbeddedField ==
    /\ pc = "walk"
    /\ Top.i <= NumField(Top.t)
    /\ ~ parseField(CurField).ignore
    /\ CurField.Anonymous
    /\ IF Kind(CurField.Type) = "struct"
       THEN /\ stack' = Append(Advance,
                               Frame(CurField.Type, Top.src, FALSE, << >>, 0, 0))
            /\ UNCHANGED pc
       ELSE /\ pc' = "panic"
            /\ UNCHANGED stack
    /\ UNCHANGED << dst, src, opts, lopts, results, err, called, input, output >>

\* The field's name is not a key of src.
MissingField ==
    /\ pc = "walk"
    /\ Top.i <= NumField(Top.t)
    /\ ~ parseField(CurField).ignore
    /\ ~ CurField.Anonymous
    /\ parseField(CurField).name \notin DOMAIN Top.src
    /\ results' = << AppendMissing(results[1],
                                   FieldMissing(parseField(CurField).name)) >>
    /\ stack' = Advance
    /\ UNCHANGED << dst, src, opts, lopts, err, called, pc, input, output >>

\* Mismatch with Expected and Actual taken from the wrong sides.
MismatchSwapped(f, fieldName, srcValue, o) ==
    FieldMismatch(fieldName,
                  IF ~ IsValid(srcValue) THEN <<"n", "ull">>
                  ELSE CallTypeNameFunc(o.TypeNameFunc, srcValue.k),
                  CallTypeNameFunc(o.TypeNameFunc, f.Type))

\* The mismatch compare records for a field whose value is not convertible.
Mismatch(f, fieldName, srcValue, o) ==
    FieldMismatch(fieldName,
                  CallTypeNameFunc(o.TypeNameFunc, f.Type),
                  IF ~ IsValid(srcValue) THEN <<"n", "ull">>
                  ELSE CallTypeNameFunc(o.TypeNameFunc, srcValue.k))

\* The field's name is a key of src: the value is checked with
\* opts.ConvertibleFunc; a mismatch is recorded, or the field is accepted
\* and, when it is struct-shaped, checkNestedFields calls compare on the
\* value asserted to be a map[string]interface{}.
PresentField ==
    /\ pc = "walk"
    /\ Top.i <= NumField(Top.t)
    /\ ~ parseField(CurField).ignore
    /\ ~ CurField.Anonymous
    /\ parseField(CurField).name \in DOMAIN Top.src
    /\ LET f == CurField
           fieldName == parseField(f).name
           srcValue == Top.src[fieldName]
           o == lopts[1]
           can == CallConvertibleFunc(o.ConvertibleFunc, f.Type, srcValue)
       IN  IF can.panics
           THEN /\ called' = called \cup { o.ConvertibleFunc }
                /\ pc' = "panic"
                /\ UNCHANGED << results, stack >>
           ELSE IF ~ can.result
           THEN /\ called' = called \cup { o.ConvertibleFunc, o.TypeNameFunc }
                /\ results' = << AppendMismatch(results[1],
                                      Mismatch(f, fieldName, srcValue, o)) >>
                /\ stack' = Advance
                /\ UNCHANGED pc
           ELSE IF ~ isStructType(f.Type)
           THEN /\ called' = called \cup { o.ConvertibleFunc }
                /\ stack' = Advance
                /\ UNCHANGED << results, pc >>
           ELSE IF srcValue.k # "map[string]interface {}"
           THEN /\ called' = called \cup { o.ConvertibleFunc }
                /\ pc' = "panic"
                /\ UNCHANGED << results, stack >>
           ELSE /\ called' = called \cup { o.ConvertibleFunc }
                /\ stack' = Append(Advance,
                                   Frame(StructOf(f.Type), srcValue.m, TRUE, fieldName,
                                         Len(results[1].MismatchedFields),
                                         Len(results[1].MissingFields)))
                /\ UNCHANGED << results, pc >>
    /\ UNCHANGED << dst, src, opts, lopts, err, input, output >>

Next ==
    \/ Call
    \/ Return
    \/ SkipField
    \/ EmbeddedField
    \/ MissingField
    \/ PresentField

Spec == Init /\ [][Next]_vars

\* The call runs on: CompareMapToStruct is one sequential function, no step
\* of which waits for anything.
SpecLive == Init /\ [][Next]_vars /\ WF_vars(Next)

\* ------------------------------------------------ parseField on its own
\* The longest tag drawn, in chunks.
MaxTagLen == 3

TagChunks == { "a", "-", ",", "omitempty" }

RECURSIVE SeqsUpTo(_, _)
SeqsUpTo(S, n) ==
    IF n = 0 THEN { << >> }
    ELSE LET shorter == SeqsUpTo(S, n - 1)
         IN  shorter \cup { Append(q, x) : q \in shorter, x \in S }

InitParse ==
    /\ input \in { Field(<<"Name">>, tag, FALSE, "string") :
                       tag \in SeqsUpTo(TagChunks, MaxTagLen) }
    /\ output = << >>
    /\ dst = Dst(FALSE, FALSE, "", TRUE)
    /\ src = NilSrc
    /\ opts = << >>
    /\ lopts = << >>
    /\ results = << >>
    /\ err = "nil"
    /\ stack = << >>
    /\ called = {}
    /\ pc = "parse"

ParseField ==
    /\ pc = "parse"
    /\ output = << >>
    /\ output' = << parseField(input) >>
    /\ UNCHANGED << callVars, input >>

NextParse == ParseField

SpecParse == InitParse /\ [][NextParse]_vars

\* ------------------------- DefaultCanConvert and SimpleTypeName on their own
\* The numeric source values drawn lie between -MaxNum and MaxNum (floats
\* in steps of one half).
MaxNum == 2

\* The values of the kinds reflect.Int8 and reflect.Uint8.
Int8Range == (0 - 128)..127

Uint8Range == 0..255

\* The least and the greatest value of a range, and the whole numbers next
\* to them outside it.
EdgesOf(range) ==
    LET lo == CHOOSE n \in range : \A k \in range : n <= k
        hi == CHOOSE n \in range : \A k \in range : n >= k
    IN  { lo - 1, lo, hi, hi + 1 }

\* The declared types DefaultCanConvert is applied to.
ConvertTypes ==
    { "string", "bool", "int", "int8", "uint", "uint8", "float64", "MyInt",
      "*string", "*int", "*uint", "TestStruct", "*TestStruct" }

\* The source values DefaultCanConvert is applied to.
ConvertVals ==
    { NullVal, StringVal, BoolVal, MapVal(EmptyMap), StringMapVal }
    \cup { FloatVal(h) : h \in (0 - 2 * MaxNum)..(2 * MaxNum) }
    \cup { IntVal(n) : n \in (0 - MaxNum)..MaxNum }
    \cup { UintVal(n) : n \in 0..MaxNum }
    \cup { Value("int8", n, EmptyMap) : n \in {0 - 1, 1} }
    \cup { FloatVal(2 * n) : n \in EdgesOf(Int8Range) \cup EdgesOf(Uint8Range) }
    \cup { IntVal(n) : n \in EdgesOf(Int8Range) \cup EdgesOf(Uint8Range) }

\* The types SimpleTypeName is applied to: every type but the unnamed maps.
NameTypes ==
    { t \in DOMAIN Types : Kind(t) # "map" }

\* The type-name strings TypeNameWithArticle is applied to: the names of
\* the package's tests, the names the two type-name hooks give the types of
\* the model, and names written with asterisks only or with two asterisks.
ArticleNames ==
    { << >>, <<"a">>, <<"e">>, <<"i">>, <<"o">>, <<"u">>, <<"n", "ull">>,
      <<"f", "loat">>, <<"U", "ser">>, <<"*">>, <<"*", "*">>,
      <<"*", "*", "i", "nt">>, <<"*", "*", "s", "tring">> }
    \cup { DetailedTypeName(t) : t \in NameTypes }
    \cup { SimpleTypeName(t) : t \in NameTypes }

\* A call of a function of the package: its name and its arguments (a type
\* and a value, or a string).
FuncCall(fn, t, v) == [fn |-> fn, t |-> t, v |-> v, s |-> << >>]

NameCall(fn, s) == [fn |-> fn, t |-> "", v |-> NullVal, s |-> s]

InitFuncs ==
    /\ input \in { FuncCall("DefaultCanConvert", t, v) :
                       t \in ConvertTypes, v \in ConvertVals }
                  \cup { FuncCall("SimpleTypeName", t, NullVal) : t \in NameTypes }
                  \cup { NameCall("TypeNameWithArticle", s) : s \in ArticleNames }
    /\ output = << >>
    /\ dst = Dst(FALSE, FALSE, "", TRUE)
    /\ src = NilSrc
    /\ opts = << >>
    /\ lopts = << >>
    /\ results = << >>
    /\ err = "nil"
    /\ stack = << >>
    /\ called = {}
    /\ pc = "apply"

\* DefaultCanConvert(t, v) is called: it returns a boolean or it panics.
ApplyDefaultCanConvert ==
    /\ pc = "apply"
    /\ input.fn = "DefaultCanConvert"
    /\ output' = << DefaultCanConvert(input.t, input.v) >>
    /\ pc' = IF DefaultCanConvert(input.t, input.v).panics THEN "panic" ELSE "done"
    /\ UNCHANGED << dst, src, opts, lopts, results, err, stack, called, input >>

\* SimpleTypeName(t) is called.
ApplySimpleTypeName ==
    /\ pc = "apply"
    /\ input.fn = "SimpleTypeName"
    /\ output' = << SimpleTypeName(input.t) >>
    /\ pc' = "done"
    /\ UNCHANGED << dst, src, opts, lopts, results, err, stack, called, input >>

\* TypeNameWithArticle(t) is called: it returns a string or it panics.
ApplyTypeNameWithArticle ==
    /\ pc = "apply"
    /\ input.fn = "TypeNameWithArticle"
    /\ output' = << TypeNameWithArticle(input.s) >>
    /\ pc' = IF TypeNameWithArticle(input.s).panics THEN "panic" ELSE "done"
    /\ UNCHANGED << dst, src, opts, lopts, results, err, stack, called, input >>

NextFuncs ==
    \/ ApplyDefaultCanConvert
    \/ ApplySimpleTypeName
    \/ ApplyTypeNameWithArticle

SpecFuncs == InitFuncs /\ [][NextFuncs]_vars

\* ------------------------------------------- CompareMapToStruct, twice
\* The struct types passed to the first of two calls.
AgainStructs ==
    Embedding \cup { "TestStructNested", "TestStructMixed", "TestStructTags" }

InitAgain ==
    /\ dst \in BadDsts \cup { Dst(TRUE, TRUE, t, FALSE) : t \in AgainStructs }
    /\ src \in { NilSrc } \cup
               { Src(m) : m \in IF ~ InvalidDst(dst)
                                THEN SrcMaps(dst.type, MaxDepth)
                                ELSE { EmptyMap } }
    /\ opts \in OptsValues
    /\ lopts = << >>
    /\ results = << >>
    /\ err = "nil"
    /\ stack = << >>
    /\ called = {}
    /\ pc = "start"
    /\ input = << >>
    /\ output = << >>

\* What the caller keeps of a call that has returned.
Returned == [dst |-> dst, results |-> results, err |-> err]

\* The caller keeps what the first call returned and calls
\* CompareMapToStruct again with the same src and opts, and with the same
\* dst or, for a struct that embeds a struct, a pointer to the struct with
\* the embedded fields written out.
CallAgain ==
    /\ pc = "done"
    /\ output = << >>
    /\ output' = << Returned >>
    /\ dst' \in { dst } \cup
                 (IF ~ InvalidDst(dst) /\ dst.type \in Embedding
                  THEN { Dst(TRUE, TRUE, InlinedOf(dst.type), FALSE) } ELSE {})
    /\ lopts' = << >>
    /\ err' = "nil"
    /\ called' = {}
    /\ pc' = "start"
    /\ UNCHANGED << src, opts, results, stack, input >>

NextAgain ==
    \/ Next
    \/ CallAgain

SpecAgain == InitAgain /\ [][NextAgain]_vars

\* -------------------------------------- CompareMapToStruct, then Errors
\* The caller calls Errors on the results CompareMapToStruct returned: it
\* returns nil or a MismatchError, or it panics in Message.
CallErrors ==
    /\ pc = "done"
    /\ results # << >>
    /\ output = << >>
    /\ output' = << Errors(results[1]) >>
    /\ pc' = IF Errors(results[1]).panics THEN "panic" ELSE "done"
    /\ UNCHANGED << dst, src, opts, lopts, results, err, stack, called, input >>

NextErrors ==
    \/ Next
    \/ CallErrors

SpecErrors == Init /\ [][NextErrors]_vars

\* ------------------------------ CompareMapToStruct, two calls at a time
\* The struct types passed to the concurrent calls: one with an embedded
\* struct, one with a skipped field, one with a nested struct.
ConcStructs == { "TestStructEmbedded", "TestStructEmbeddedSkip", "TestStructNested" }

\* What belongs to one invocation alone: its parameter opts once it points
\* to the copy, the results it allocated, its return value, its call stack
\* and its position.
Private ==
    [lopts |-> lopts, results |-> results, err |-> err, stack |-> stack,
     called |-> called, pc |-> pc]

\* An invocation that has not run a statement yet.
Fresh ==
    [lopts |-> << >>, results |-> << >>, err |-> "nil", stack |-> << >>,
     called |-> {}, pc |-> "start"]

\* Two invocations are started with the same dst, src and opts: the
\* variables of the state hold the one that takes the next step, `output`
\* holds the other one.
InitConc ==
    /\ dst \in BadDsts \cup { Dst(TRUE, TRUE, t, FALSE) : t \in ConcStructs }
    /\ src \in { NilSrc } \cup
               { Src(m) : m \in IF ~ InvalidDst(dst)
                                THEN SrcMaps(dst.type, MaxDepth)
                                ELSE { EmptyMap } }
    /\ opts \in OptsValues
    /\ lopts = Fresh.lopts
    /\ results = Fresh.results
    /\ err = Fresh.err
    /\ stack = Fresh.stack
    /\ called = Fresh.called
    /\ pc = Fresh.pc
    /\ input = << >>
    /\ output = << Fresh >>

\* The scheduler lets the other invocation take the next steps. A panic
\* ends the program, so nothing is scheduled after one.
Switch ==
    /\ input = << >>
    /\ pc # "panic"
    /\ output' = << Private >>
    /\ lopts' = output[1].lopts
    /\ results' = output[1].results
    /\ err' = output[1].err
    /\ stack' = output[1].stack
    /\ called' = output[1].called
    /\ pc' = output[1].pc
    /\ UNCHANGED << dst, src, opts, input >>

\* Both invocations have returned; the caller keeps what they returned in
\* `input` and makes the same call once more, alone.
CallAlone ==
    /\ input = << >>
    /\ pc = "done"
    /\ output[1].pc = "done"
    /\ input' = << [a |-> [results |-> results, err |-> err],
                    b |-> [results |-> output[1].results, err |-> output[1].err]] >>
    /\ lopts' = Fresh.lopts
    /\ results' = Fresh.results
    /\ err' = Fresh.err
    /\ stack' = Fresh.stack
    /\ called' = Fresh.called
    /\ pc' = Fresh.pc
    /\ UNCHANGED << dst, src, opts, output >>

NextConc ==
    \/ Next
    \/ Switch
    \/ CallAlone

SpecConc == InitConc /\ [][NextConc]_vars

\* ------------------------- CompareMapToStruct, then a method of an entry
\* A method called on entry i of a list of the result.
MethodCall(fn, i) == [fn |-> fn, i |-> i]

\* The caller calls Message on a mismatch of the result.
CallMessage ==
    /\ pc = "done"
    /\ results # << >>
    /\ output = << >>
    /\ \E i \in 1..Len(results[1].MismatchedFields) :
           /\ input' = << MethodCall("Message", i) >>
           /\ output' = << Message(results[1].MismatchedFields[i]) >>
           /\ pc' = IF Message(results[1].MismatchedFields[i]).panics
                    THEN "panic" ELSE "done"
    /\ UNCHANGED << dst, src, opts, lopts, results, err, stack, called >>

\* The caller calls MessageWithField on a mismatch of the result.
CallMessageWithField ==
    /\ pc = "done"
    /\ results # << >>
    /\ output = << >>
    /\ \E i \in 1..Len(results[1].MismatchedFields) :
           /\ input' = << MethodCall("MessageWithField", i) >>
           /\ output' = << MessageWithField(results[1].MismatchedFields[i]) >>
           /\ pc' = IF MessageWithField(results[1].MismatchedFields[i]).panics
                    THEN "panic" ELSE "done"
    /\ UNCHANGED << dst, src, opts, lopts, results, err, stack, called >>

\* The caller calls String on a missing field of the result.
CallString ==
    /\ pc = "done"
    /\ results # << >>
    /\ output = << >>
    /\ \E i \in 1..Len(results[1].MissingFields) :
           /\ input' = << MethodCall("String", i) >>
           /\ output' = << [panics |-> FALSE,
                            s |-> String(results[1].MissingFields[i])] >>
    /\ UNCHANGED << dst, src, opts, lopts, results, err, stack, called, pc >>

NextMessages ==
    \/ Next
    \/ CallMessage
    \/ CallMessageWithField
    \/ CallString
    \/ CallErrors

SpecMessages == Init /\ [][NextMessages]_vars

\* ------------------------------------------------------------ properties
\* dst is a non-nil pointer to a struct.
NonNilPtrToStruct(d) ==
    d.valid /\ d.ptr /\ ~ d.isNil /\ Kind(d.type) = "struct"

\* The call has ended: it returned, or it aborted with a panic.
Ended == pc \in { "done", "panic" }

\* The opts argument leaves both hooks to their defaults.
DefaultOpts == opts \in { << >>, CompareOpts("", "") }

\* C1: once CompareMapToStruct has checked its arguments, a dst that is not
\* a non-nil pointer to a struct (a non-pointer, an untyped nil, a nil
\* pointer, a struct by value, a pointer to a non-struct) has made it return
\* ErrInvalidDst and a nil result, whatever src is; with a non-nil pointer
\* to a struct and a non-nil src no error is returned, and what is returned
\* is a result.
C1_InvalidDst ==
    pc # "start" =>
        /\ ~ NonNilPtrToStruct(dst) =>
               pc = "done" /\ err = "ErrInvalidDst" /\ results = << >>
        /\ NonNilPtrToStruct(dst) /\ ~ src.isNil =>
               err = "nil" /\ (pc = "done" => results # << >>)

\* C1 witness: a nil pointer to a struct was refused.
C1_Witness ==
    /\ pc = "done"
    /\ dst.valid /\ dst.ptr /\ dst.isNil /\ dst.type = "TestStruct"
    /\ err = "ErrInvalidDst"
    /\ results = << >>

\* C2: with a valid dst, a nil src makes CompareMapToStruct return ErrNilSrc
\* and a nil result, and an empty non-nil src makes it return no error.
C2_NilSrc ==
    pc # "start" /\ NonNilPtrToStruct(dst) =>
        /\ src.isNil => pc = "done" /\ err = "ErrNilSrc" /\ results = << >>
        /\ ~ src.isNil /\ src.m = EmptyMap =>
               err = "nil" /\ (pc = "done" => results # << >>)

\* C2 witness: a nil src was refused for a valid dst.
C2_Witness ==
    /\ pc = "done"
    /\ NonNilPtrToStruct(dst)
    /\ src.isNil
    /\ err = "ErrNilSrc"

\* The map holds only what encoding/json decodes into a
\* map[string]interface{}: null, strings, booleans, float64 numbers and
\* nested maps of the same.
RECURSIVE JSONShaped(_)
JSONShaped(m) ==
    \A k \in DOMAIN m :
        /\ m[k].k \in { "", "string", "bool", "float64", "map[string]interface {}" }
        /\ JSONShaped(m[k].m)

\* C3: with a non-nil pointer to a struct, a non-nil src and default
\* options, CompareMapToStruct never aborts, and returns a non-nil result
\* and a nil error. Stated for the struct types the tests declare and for
\* sources as encoding/json decodes them.
C3_NeverAborts ==
    /\ NonNilPtrToStruct(dst) /\ dst.type \in DOMAIN TestTypes
    /\ ~ src.isNil /\ JSONShaped(src.m)
    /\ DefaultOpts
    => /\ pc # "panic"
       /\ pc = "done" => results # << >> /\ err = "nil"

\* The walk is at a field that is neither skipped nor embedded.
AtComparedField ==
    /\ pc = "walk"
    /\ Top.i <= NumField(Top.t)
    /\ ~ parseField(CurField).ignore
    /\ ~ CurField.Anonymous

\* C4: the step that visits a non-skipped, non-embedded field has exactly
\* one of three outcomes. Its external name is not a key of the source map
\* of that level: one FieldMissing is appended and nothing else. The key is
\* present and the convertibility predicate returns false: one
\* FieldMismatch is appended, with that name and Expected the naming
\* function applied to the declared type, and nothing else. The key is
\* present otherwise: no entry is appended.
C4_FieldOutcome ==
    [][ AtComparedField =>
          LET f == CurField
              name == parseField(f).name
              r == results[1]
              after == results'[1]
              o == lopts[1]
          IN  IF name \notin DOMAIN Top.src
              THEN /\ after.MissingFields =
                          Append(r.MissingFields, [Field |-> name, Path |-> << >>])
                   /\ after.MismatchedFields = r.MismatchedFields
              ELSE LET can == CallConvertibleFunc(o.ConvertibleFunc, f.Type,
                                                  Top.src[name])
                   IN  IF ~ can.panics /\ ~ can.result
                       THEN /\ Len(after.MismatchedFields) =
                                   Len(r.MismatchedFields) + 1
                            /\ SubSeq(after.MismatchedFields, 1,
                                      Len(r.MismatchedFields)) = r.MismatchedFields
                            /\ LET m == after.MismatchedFields[Len(after.MismatchedFields)]
                               IN  /\ m.Field = name
                                   /\ m.Expected = CallTypeNameFunc(o.TypeNameFunc, f.Type)
                            /\ after.MissingFields = r.MissingFields
                       ELSE after = r
      ]_vars

\* C4 witness: a walk of TestStruct that accepted Foo, recorded a mismatch
\* for Bar and recorded Baz as missing.
C4_Witness ==
    /\ pc = "done"
    /\ dst.type = "TestStruct"
    /\ opts = CompareOpts("", "SimpleTypeName")
    /\ src.m = (<<"Foo">> :> StringVal) @@ (<<"Bar">> :> FloatVal(3))
    /\ results[1].MismatchedFields =
           << [Field |-> <<"Bar">>, Expected |-> <<"i", "nt">>,
               Actual |-> <<"f", "loat">>, Path |-> << >>] >>
    /\ results[1].MissingFields = << [Field |-> <<"Baz">>, Path |-> << >>] >>

\* The external names of the fields compare visits at one level of type t,
\* in order: skipped fields left out, embedded structs flattened, a nested
\* struct counted as one field.
RECURSIVE FlatNames(_)
FlatNamesFrom(t, i) ==
    LET RECURSIVE From(_)
        From(j) ==
            IF j > NumField(t) THEN << >>
            ELSE LET f == FieldAt(t, j)
                 IN  (IF f.Tag = <<"-">> THEN << >>
                      ELSE IF f.Anonymous THEN FlatNames(StructOf(f.Type))
                      ELSE << parseField(f).name >>) \o From(j + 1)
    IN  From(i)

FlatNames(t) == FlatNamesFrom(t, 1)

\* How many elements of the sequence q satisfy Field = name.
CountField(q, name) == Cardinality({ i \in 1..Len(q) : q[i].Field = name })

CountName(q, name) == Cardinality({ i \in 1..Len(q) : q[i] = name })

\* C5: for a valid destination and an empty source map the call returns,
\* every non-skipped field of the destination (embedded fields flattened,
\* a nested struct counted as one field) is in MissingFields exactly once,
\* and MismatchedFields is empty.
C5_EmptySrcAllMissing ==
    NonNilPtrToStruct(dst) /\ ~ src.isNil /\ src.m = EmptyMap /\ Ended =>
        /\ pc = "done"
        /\ results # << >>
        /\ results[1].MismatchedFields = << >>
        /\ Len(results[1].MissingFields) = Len(FlatNames(dst.type))
        /\ \A i \in 1..Len(FlatNames(dst.type)) :
               CountField(results[1].MissingFields, FlatNames(dst.type)[i]) =
               CountName(FlatNames(dst.type), FlatNames(dst.type)[i])

\* C5 restricted to the destinations that embed no pointer type (holds).
C5_ExceptEmbeddedPtr ==
    dst.type # "TestStructEmbeddedPtr" => C5_EmptySrcAllMissing

\* C6: in a returned result no field, identified by its path and its name,
\* has an entry in MismatchedFields and an entry in MissingFields.
C6_NeverInBothLists ==
    pc = "done" /\ results # << >> =>
        \A i \in 1..Len(results[1].MismatchedFields) :
            \A j \in 1..Len(results[1].MissingFields) :
                ~ /\ results[1].MismatchedFields[i].Field =
                         results[1].MissingFields[j].Field
                  /\ results[1].MismatchedFields[i].Path =
                         results[1].MissingFields[j].Path

\* C6 witness: a returned result with a mismatch and a missing field of
\* one nested struct, next to each other under the same path.
C6_Witness ==
    /\ pc = "done"
    /\ results # << >>
    /\ \E i \in 1..Len(results[1].MismatchedFields) :
           \E j \in 1..Len(results[1].MissingFields) :
               /\ results[1].MismatchedFields[i].Path = <<<<"Cat">>>>
               /\ results[1].MissingFields[j].Path = <<<<"Cat">>>>

\* The entries of both lists of the results.
Entries ==
    IF results = << >> THEN {}
    ELSE { results[1].MismatchedFields[i].Field :
               i \in 1..Len(results[1].MismatchedFields) }
         \cup { results[1].MissingFields[i].Field :
                    i \in 1..Len(results[1].MissingFields) }

\* C7: the step that visits a field tagged exactly "-" appends nothing and
\* moves on to the next field without looking into it, embedded or not; so
\* IgnoreMe of TestStructTags and the field Foo of the skipped embedded
\* struct of TestStructEmbeddedSkip are in neither list, whatever the
\* source holds.
C7_SkippedNeverReported ==
    /\ [][ pc = "walk" /\ Top.i <= NumField(Top.t) /\ CurField.Tag = <<"-">> =>
              results' = results /\ pc' = "walk" /\ stack' = Advance ]_vars
    /\ [](dst.type = "TestStructTags" => <<"IgnoreMe">> \notin Entries)
    /\ [](dst.type = "TestStructEmbeddedSkip" => <<"Foo">> \notin Entries)

\* C7 witness: a finished walk of TestStructTags whose source holds the
\* keys "IgnoreMe" and "-".
C7_Witness ==
    /\ pc = "done"
    /\ dst.type = "TestStructTags"
    /\ DOMAIN src.m = { <<"IgnoreMe">>, <<"-">> }
    /\ results[1].MismatchedFields # << >>

\* The part of the tag before its first comma.
BeforeComma(tag) ==
    LET n == CHOOSE n \in 0..(Len(tag) - 1) :
                 tag[n + 1] = "," /\ \A j \in 1..n : tag[j] # ","
    IN  [j \in 1..n |-> tag[j]]

HasComma(tag) == \E j \in 1..Len(tag) : tag[j] = ","

\* C8: the external name of a field: the declared name for an empty tag;
\* for a tag with a comma the part before the first comma, or the declared
\* name when that part is empty; "-" for the tag "-,", which is not
\* skipped; any other tag verbatim, whatever the declared name is. Only the
\* tag "-" is skipped.
C8_ExternalName ==
    output # << >> =>
        LET tag == input.Tag
            got == output[1]
        IN  /\ got.ignore <=> tag = <<"-">>
            /\ ~ got.ignore =>
                   got.name = IF tag = << >> THEN input.Name
                              ELSE IF HasComma(tag)
                                   THEN IF BeforeComma(tag) = << >>
                                        THEN input.Name
                                        ELSE BeforeComma(tag)
                              ELSE tag
            /\ tag = <<"-", ",">> => ~ got.ignore /\ got.name = <<"-">>
            /\ tag = <<",", "omitempty">> => got.name = input.Name

\* C8 witness: the tags ",omitempty" and "-," have been resolved.
C8_Witness ==
    /\ output # << >>
    /\ input.Tag \in { <<",", "omitempty">>, <<"-", ",">> }

\* The hook CompareMapToStruct must use where the caller's opts holds h.
Resolved(h, default) ==
    IF opts = << >> THEN default
    ELSE IF opts[1][h] = "" THEN default ELSE opts[1][h]

\* C9: after the first lines of CompareMapToStruct the hooks in use are the
\* defaults when opts is nil, and otherwise, hook by hook, the caller's hook
\* when it is not nil and the default when it is; no other hook is invoked
\* during the comparison, the convertibility hook in use has been invoked
\* once the walk has returned from a source holding a key of a compared
\* field, and the naming hook in use once a mismatch is recorded.
C9_HookResolution ==
    pc # "start" =>
        /\ lopts = CompareOpts(Resolved("ConvertibleFunc", "DefaultCanConvert"),
                               Resolved("TypeNameFunc", "DetailedTypeName"))
        /\ called \subseteq { Resolved("ConvertibleFunc", "DefaultCanConvert"),
                              Resolved("TypeNameFunc", "DetailedTypeName") }
        /\ /\ pc = "done" /\ results # << >>
           /\ \E i \in 1..Len(FlatNames(dst.type)) :
                  FlatNames(dst.type)[i] \in DOMAIN src.m
           => Resolved("ConvertibleFunc", "DefaultCanConvert") \in called
        /\ results # << >> /\ results[1].MismatchedFields # << >> =>
               Resolved("TypeNameFunc", "DetailedTypeName") \in called

\* C9 witness: the caller supplied only ConvertibleFunc; it was invoked, and
\* so was the default naming function.
C9_Witness ==
    /\ pc = "done"
    /\ opts = CompareOpts("convertibleFunc", "")
    /\ called = { "convertibleFunc", "DetailedTypeName" }

\* C10: no step of CompareMapToStruct changes the caller's options object
\* (a nil hook stays nil), the destination or the source map.
C10_ArgumentsUnchanged ==
    [][ opts' = opts /\ dst' = dst /\ src' = src ]_vars

\* C10 witness: a call with the zero CompareOpts has returned a result with
\* entries, having filled in both defaults in its own copy.
C10_Witness ==
    /\ pc = "done"
    /\ opts = CompareOpts("", "")
    /\ lopts = CompareOpts("DefaultCanConvert", "DetailedTypeName")
    /\ results # << >>
    /\ results[1].MismatchedFields # << >>
    /\ results[1].MissingFields # << >>

\* The walk is at a compared field whose key holds null, and the
\* convertibility hook in use is DefaultCanConvert.
AtNullUnderDefault ==
    /\ AtComparedField
    /\ lopts[1].ConvertibleFunc = "DefaultCanConvert"
    /\ parseField(CurField).name \in DOMAIN Top.src
    /\ Top.src[parseField(CurField).name] = NullVal

\* C11: under the default predicate a null is convertible exactly to a
\* pointer type: the step that visits a field whose key holds null appends
\* nothing when the field's type is a pointer, and otherwise appends one
\* FieldMismatch with the field's name, Expected the naming hook applied to
\* the declared type and Actual the literal "null", whatever the naming
\* hook is.
C11_NullOnlyToPointer ==
    [][ AtNullUnderDefault =>
          LET f == CurField
              name == parseField(f).name
              r == results[1]
          IN  /\ DefaultCanConvert(f.Type, NullVal) = Returns(Kind(f.Type) = "ptr")
              /\ IF Kind(f.Type) = "ptr"
                 THEN results' = results
                 ELSE /\ results'[1].MismatchedFields =
                            Append(r.MismatchedFields,
                                   [Field |-> name,
                                    Expected |-> CallTypeNameFunc(lopts[1].TypeNameFunc,
                                                                  f.Type),
                                    Actual |-> <<"n", "ull">>,
                                    Path |-> << >>])
                      /\ results'[1].MissingFields = r.MissingFields
      ]_vars

\* C11 witness: a returned walk of TestStructMixed whose Foo (string) and
\* Ptr (*string) both hold null: one mismatch, for Foo, with Actual "null".
C11_Witness ==
    /\ pc = "done"
    /\ dst.type = "TestStructMixed"
    /\ opts = CompareOpts("", "SimpleTypeName")
    /\ src.m = (<<"Foo">> :> NullVal) @@ (<<"Ptr">> :> NullVal)
    /\ results[1].MismatchedFields =
           << [Field |-> <<"Foo">>, Expected |-> <<"s", "tring">>,
               Actual |-> <<"n", "ull">>, Path |-> << >>] >>
    /\ results[1].MissingFields = << [Field |-> <<"Inner">>, Path |-> << >>] >>

\* DefaultCanConvert has been applied to a floating-point value and an
\* integer type, or a pointer to one.
FloatToInteger ==
    /\ output # << >>
    /\ input.fn = "DefaultCanConvert"
    /\ isIntegerType(StructOf(input.t)).yes
    /\ IsValid(input.v)
    /\ isFloatType(input.v.k)

\* The float has a fractional component (values are stored doubled).
Fractional(v) == v.n % 2 # 0

\* C12 as stated: a float under an integer type, signed or unsigned,
\* directly or through a pointer, is a mismatch exactly when it has a
\* fractional component.
C12_MismatchIffFractional ==
    FloatToInteger =>
        /\ ~ output[1].panics
        /\ ~ output[1].result <=> Fractional(input.v)

\* C12 amended: a float under an integer type, signed or unsigned, directly
\* or through a pointer, is a mismatch whenever it has a fractional
\* component; without one it is accepted for a signed type, and for an
\* unsigned type exactly when it is not negative.
C12_FloatToInteger ==
    FloatToInteger =>
        /\ ~ output[1].panics
        /\ Fractional(input.v) => ~ output[1].result
        /\ ~ Fractional(input.v) =>
               IF isIntegerType(StructOf(input.t)).unsigned
               THEN output[1].result <=> input.v.n >= 0
               ELSE output[1].result

\* C12 witness: 2.0 has been accepted for *int.
C12_Witness ==
    /\ input = FuncCall("DefaultCanConvert", "*int", FloatVal(4))
    /\ output = << Returns(TRUE) >>

\* C13: for an unsigned integer type, directly or through a pointer,
\* DefaultCanConvert returns a boolean for every numeric source value, a
\* float or a signed or unsigned integer, and accepts it only if it is not
\* negative; the floats 0 and 1 are accepted and -1 is rejected.
C13_UnsignedNonNegative ==
    /\ output # << >>
    /\ input.fn = "DefaultCanConvert"
    /\ isIntegerType(StructOf(input.t)).unsigned
    /\ IsValid(input.v)
    /\ isFloatType(input.v.k) \/ isIntegerType(input.v.k).yes
    => /\ ~ output[1].panics
       /\ output[1].result => input.v.n >= 0
       /\ input.v \in { FloatVal(0), FloatVal(2) } => output[1].result
       /\ input.v = FloatVal(0 - 2) => ~ output[1].result

\* C13 for the source values that are floats or signed integers (holds).
C13_ExceptUnsignedSource ==
    ~ (IsValid(input.v) /\ isIntegerType(input.v.k).unsigned)
    => C13_UnsignedNonNegative

\* The name C20 gives a non-pointer type: "int" for every signed integer
\* kind, "uint" for every unsigned one, "float" for every float kind, and
\* the type's own name otherwise.
GenericName(t) ==
    IF isIntegerType(t).yes
    THEN IF isIntegerType(t).unsigned THEN <<"u", "int">> ELSE <<"i", "nt">>
    ELSE IF isFloatType(t) THEN <<"f", "loat">>
    ELSE Name(t)

\* C20: SimpleTypeName names every type of a signed integer kind "int", of
\* an unsigned integer kind "uint", of a float kind "float" and any other
\* type by its own name, named types over a numeric kind included; for a
\* pointer it is "*" followed by that name of the element type.
C20_SimpleTypeName ==
    output # << >> /\ input.fn = "SimpleTypeName" =>
        output[1] = IF Kind(input.t) = "ptr"
                    THEN <<"*">> \o GenericName(Elem(input.t))
                    ELSE GenericName(input.t)

\* C20 for every type but the named types of kind int (holds).
C20_ExceptNamedInt ==
    ~ (Kind(StructOf(input.t)) = "int" /\ Name(StructOf(input.t)) # <<"i", "nt">>)
    => C20_SimpleTypeName

\* The second of two calls has ended, the first one having been made with
\* a struct that embeds a struct and this one with the embedded fields
\* written out.
SecondCallInlined ==
    /\ output # << >>
    /\ Ended
    /\ ~ InvalidDst(output[1].dst)
    /\ output[1].dst.type \in Embedding
    /\ dst.type = InlinedOf(output[1].dst.type)

\* No embedding field of t is tagged "-", nor one of a struct it embeds.
RECURSIVE NoSkippedEmbedding(_)
NoSkippedEmbedding(t) ==
    \A i \in 1..NumField(t) :
        FieldAt(t, i).Anonymous /\ Kind(FieldAt(t, i).Type) = "struct" =>
            /\ FieldAt(t, i).Tag # <<"-">>
            /\ NoSkippedEmbedding(FieldAt(t, i).Type)

C19_Deterministic ==
    output # << >> /\ Ended /\ dst = output[1].dst =>
        pc = "done" /\ results = output[1].results /\ err = output[1].err

\* C19 witness: two calls for TestStructNested have both returned the
\* mismatch of Baz under Cat.A.
C19_Witness ==
    /\ output # << >>
    /\ pc = "done"
    /\ dst = output[1].dst
    /\ dst.type = "TestStructNested"
    /\ results # << >>
    /\ results = output[1].results
    /\ \E i \in 1..Len(results[1].MismatchedFields) :
           /\ results[1].MismatchedFields[i].Field = <<"Baz">>
           /\ results[1].MismatchedFields[i].Path = << <<"Cat">>, <<"A">> >>

\* The fields compare looks up at one level of struct type t, in order,
\* each with its external name and its type: skipped fields left out,
\* embedded structs expanded in place.
RECURSIVE ComparedFields(_)
ComparedFields(t) ==
    LET RECURSIVE From(_)
        From(j) ==
            IF j > NumField(t) THEN << >>
            ELSE LET f == FieldAt(t, j)
                 IN  (IF parseField(f).ignore THEN << >>
                      ELSE IF f.Anonymous
                           THEN IF Kind(f.Type) = "struct"
                                THEN ComparedFields(f.Type) ELSE << >>
                      ELSE << [name |-> parseField(f).name, type |-> f.Type] >>)
                     \o From(j + 1)
    IN  From(1)

\* Following path from struct type t through nested (struct-shaped,
\* non-embedded) fields by their external names leads to a struct that has
\* a compared field named field.
RECURSIVE PathResolves(_, _, _)
PathResolves(t, path, field) ==
    LET fs == ComparedFields(t)
    IN  IF path = << >>
        THEN \E j \in 1..Len(fs) : fs[j].name = field
        ELSE \E j \in 1..Len(fs) :
                 /\ fs[j].name = path[1]
                 /\ isStructType(fs[j].type)
                 /\ PathResolves(StructOf(fs[j].type), Tail(path), field)

\* The names of the fields whose nested structs the walk is inside of,
\* outermost first.
FieldNames(frames) == [ j \in 1..Len(frames) |-> frames[j].fieldName ]

\* The path entry i of MismatchedFields ends up with: the segments still
\* to be put in front of it by the calls of checkNestedFields in progress
\* that started before it was appended, and the segments it has.
MismatchFullPath(i) ==
    LET Open(fr) == fr.nested /\ fr.mismatchCount < i
    IN  FieldNames(SelectSeq(stack, Open)) \o results[1].MismatchedFields[i].Path

MissingFullPath(i) ==
    LET Open(fr) == fr.nested /\ fr.missingCount < i
    IN  FieldNames(SelectSeq(stack, Open)) \o results[1].MissingFields[i].Path

\* The external names of the nested fields enclosing the field the walk is
\* at, outermost first.
Enclosing ==
    LET Open(fr) == fr.nested
    IN  FieldNames(SelectSeq(stack, Open))

\* C15: an entry is appended with its own bare external name as Field; the
\* path it ends up with is the external names of the nested (non-embedded)
\* fields enclosing it, outermost first, and no later step changes the
\* Field or that path of an entry already in a list, so entries produced
\* before or outside a recursion keep theirs. In a returned result every
\* entry's Path leads through nested fields of the destination to a field
\* named Field, top-level entries have an empty Path, and the mismatch of
\* Baz inside A inside Cat has Field "Baz" and Path ["Cat", "A"].
C15_Paths ==
    /\ [][ results # << >> /\ results' # << >> =>
             LET old == results[1]
                 new == results'[1]
             IN  /\ Len(new.MismatchedFields) >= Len(old.MismatchedFields)
                 /\ Len(new.MissingFields) >= Len(old.MissingFields)
                 /\ \A i \in 1..Len(old.MismatchedFields) :
                        /\ new.MismatchedFields[i].Field = old.MismatchedFields[i].Field
                        /\ MismatchFullPath(i)' = MismatchFullPath(i)
                 /\ \A i \in 1..Len(old.MissingFields) :
                        /\ new.MissingFields[i].Field = old.MissingFields[i].Field
                        /\ MissingFullPath(i)' = MissingFullPath(i)
                 /\ \A i \in (Len(old.MismatchedFields) + 1)..Len(new.MismatchedFields) :
                        /\ new.MismatchedFields[i].Field = parseField(CurField).name
                        /\ MismatchFullPath(i)' = Enclosing
                 /\ \A i \in (Len(old.MissingFields) + 1)..Len(new.MissingFields) :
                        /\ new.MissingFields[i].Field = parseField(CurField).name
                        /\ MissingFullPath(i)' = Enclosing
         ]_vars
    /\ [](pc = "done" /\ results # << >> =>
            /\ \A i \in 1..Len(results[1].MismatchedFields) :
                   PathResolves(dst.type, results[1].MismatchedFields[i].Path,
                                results[1].MismatchedFields[i].Field)
            /\ \A i \in 1..Len(results[1].MissingFields) :
                   PathResolves(dst.type, results[1].MissingFields[i].Path,
                                results[1].MissingFields[i].Field))
    /\ [](/\ pc = "done"
          /\ dst.type = "TestStructNested"
          /\ lopts = CompareOpts("DefaultCanConvert", "DetailedTypeName")
          /\ ~ src.isNil
          /\ src.m = (<<"Cat">> :> MapVal(<<"A">> :> MapVal(<<"Baz">> :> BoolVal)))
          => /\ results[1].MismatchedFields =
                    << [Field |-> <<"Baz">>, Expected |-> <<"s", "tring">>,
                        Actual |-> <<"b", "ool">>,
                        Path |-> << <<"Cat">>, <<"A">> >>] >>
             /\ results[1].MissingFields =
                    << [Field |-> <<"B">>, Path |-> << <<"Cat">> >>] >>)

\* C15 witness: a returned walk of TestStructMixed with a mismatch for the
\* top-level Foo, recorded before the recursion into Inner, and Ptr missing
\* both at the top level and inside Inner.
C15_Witness ==
    /\ pc = "done"
    /\ dst.type = "TestStructMixed"
    /\ results # << >>
    /\ Len(results[1].MismatchedFields) = 1
    /\ results[1].MismatchedFields[1].Field = <<"Foo">>
    /\ results[1].MismatchedFields[1].Path = << >>
    /\ results[1].MissingFields =
           << [Field |-> <<"Ptr">>, Path |-> << >>],
              [Field |-> <<"Ptr">>, Path |-> << <<"Inner">> >>] >>

\* The source value is a mapping.
IsMapping(v) == IsValid(v) /\ Kind(v.k) = "map"

\* [Field |-> field, Path |-> path] is listed as mismatched or as missing.
Listed(field, path) ==
    \/ \E i \in 1..Len(results[1].MismatchedFields) :
           /\ results[1].MismatchedFields[i].Field = field
           /\ results[1].MismatchedFields[i].Path = path
    \/ \E i \in 1..Len(results[1].MissingFields) :
           /\ results[1].MissingFields[i].Field = field
           /\ results[1].MissingFields[i].Path = path

\* No prefix of path names a field that is itself listed.
ThroughNoListedField(path) ==
    \A n \in 1..Len(path) : ~ Listed(path[n], SubSeq(path, 1, n - 1))

\* The step at a struct-shaped field (a struct or a pointer to one) whose
\* key is absent appends one FieldMissing and moves on to the next field
\* without a call for the nested struct; when the key holds a value that is
\* not a mapping and excluded is FALSE for it, it appends one FieldMismatch
\* and moves on likewise.
ShortCircuitStep(excluded(_, _)) ==
    AtComparedField /\ isStructType(CurField.Type) =>
        LET name == parseField(CurField).name
            r == results[1]
        IN  IF name \notin DOMAIN Top.src
            THEN /\ Len(results'[1].MissingFields) = Len(r.MissingFields) + 1
                 /\ results'[1].MissingFields[Len(r.MissingFields) + 1].Field = name
                 /\ results'[1].MismatchedFields = r.MismatchedFields
                 /\ stack' = Advance
                 /\ pc' = "walk"
            ELSE IF ~ IsMapping(Top.src[name]) /\ ~ excluded(CurField, Top.src[name])
            THEN /\ Len(results'[1].MismatchedFields) = Len(r.MismatchedFields) + 1
                 /\ results'[1].MismatchedFields[Len(r.MismatchedFields) + 1].Field = name
                 /\ results'[1].MissingFields = r.MissingFields
                 /\ stack' = Advance
                 /\ pc' = "walk"
            ELSE TRUE

\* In a returned result no entry's Path passes through a field that is
\* itself listed as missing or mismatched.
NoEntryUnderListedField ==
    pc = "done" /\ results # << >> =>
        /\ \A i \in 1..Len(results[1].MismatchedFields) :
               ThroughNoListedField(results[1].MismatchedFields[i].Path)
        /\ \A i \in 1..Len(results[1].MissingFields) :
               ThroughNoListedField(results[1].MissingFields[i].Path)

\* Nothing is excluded.
NothingExcluded(f, v) == FALSE

\* A null under a pointer-typed field.
NullUnderPointer(f, v) == ~ IsValid(v) /\ Kind(f.Type) = "ptr"

\* C16: when a struct-typed or pointer-to-struct field is missing from the
\* source, or its source value is not a mapping, exactly one entry is
\* produced for it (missing, respectively mismatch) and none for a field
\* nested under it; so no entry's Path passes through a field that is
\* itself listed. Stated for the struct types the tests declare, sources as
\* encoding/json decodes them and default options.
C16_ShortCircuit ==
    /\ [][ /\ dst.type \in DOMAIN TestTypes
           /\ JSONShaped(src.m)
           /\ DefaultOpts
           => ShortCircuitStep(NothingExcluded) ]_vars
    /\ [] NoEntryUnderListedField

\* C16 for every value but a null under a pointer to a struct, for every
\* destination, source and hook drawn (holds).
C16_ExceptNullUnderPointer ==
    /\ [][ ShortCircuitStep(NullUnderPointer) ]_vars
    /\ [] NoEntryUnderListedField

\* C17: Errors returns nil if and only if MismatchedFields is empty,
\* however many entries MissingFields holds; with at least one mismatch it
\* returns a MismatchError that is not nil. Stated for the struct types the
\* tests declare, sources as encoding/json decodes them and default
\* options.
C17_ErrorsNilIffNoMismatch ==
    /\ output # << >>
    /\ dst.type \in DOMAIN TestTypes
    /\ JSONShaped(src.m)
    /\ DefaultOpts
    =>
        /\ ~ output[1].panics
        /\ output[1].isNil <=> results[1].MismatchedFields = << >>
        /\ results[1].MismatchedFields # << >> =>
               ~ output[1].isNil /\ DOMAIN output[1].m # {}

\* C17 for the calls of Errors that return (holds).
C17_WhenErrorsReturns ==
    output # << >> /\ ~ output[1].panics =>
        /\ output[1].isNil <=> results[1].MismatchedFields = << >>
        /\ results[1].MismatchedFields # << >> => DOMAIN output[1].m # {}

\* Map m holds the string msg under the keys of path, one nested map per
\* segment but the last.
RECURSIVE HasLeaf(_, _, _)
HasLeaf(m, path, msg) ==
    /\ path[1] \in DOMAIN m
    /\ IF Len(path) = 1
       THEN m[path[1]].isString /\ m[path[1]].s = msg
       ELSE ~ m[path[1]].isString /\ HasLeaf(m[path[1]].m, Tail(path), msg)

\* Mismatch i is the last one listed with its Path and Field.
LastOfItsName(list, i) ==
    \A j \in (i + 1)..Len(list) :
        ~ (list[j].Field = list[i].Field /\ list[j].Path = list[i].Path)

\* C18: for a result with mismatches Errors returns a tree: the message of
\* each mismatch ("expected <article+expected> but it's <article+actual>")
\* is the leaf keyed by the mismatch's Field inside a chain of maps keyed
\* by the segments of its Path in order; a mismatch of Baz with Path
\* [Cat, A] is under Cat, A, Baz and "Baz" is not a top-level key. Stated
\* for the struct types the tests declare, sources as encoding/json decodes
\* them and default options.
C18_ErrorsTree ==
    /\ output # << >> /\ ~ output[1].panics /\ ~ output[1].isNil
    /\ dst.type \in DOMAIN TestTypes
    /\ JSONShaped(src.m)
    /\ DefaultOpts
    =>
        LET list == results[1].MismatchedFields
        IN  /\ \A i \in 1..Len(list) :
                   LastOfItsName(list, i) =>
                       HasLeaf(output[1].m, list[i].Path \o << list[i].Field >>,
                               Message(list[i]).s)
            /\ \A i \in 1..Len(list) :
                   /\ list[i].Field = <<"Baz">>
                   /\ list[i].Path = << <<"Cat">>, <<"A">> >>
                   => <<"Baz">> \notin DOMAIN output[1].m

\* C18 for the results whose mismatches are all at the top level (holds).
C18_TopLevelOnly ==
    /\ output # << >>
    /\ \A i \in 1..Len(results[1].MismatchedFields) :
           results[1].MismatchedFields[i].Path = << >>
    => C18_ErrorsTree

\* ----------------------------------------------------------------- C21
\* The first letter of a type name behind its pointer markers ("" when the
\* name has none).
FirstLetter(t) ==
    IF \E i \in 1..Len(t) : t[i] # "*"
    THEN t[CHOOSE i \in 1..Len(t) :
               t[i] # "*" /\ \A j \in 1..(i - 1) : t[j] = "*"]
    ELSE ""

WithArticle(t) ==
    IF t = <<"n", "ull">> THEN t
    ELSE IF FirstLetter(t) \in { "a", "e", "i", "o", "A", "E", "I", "O" }
         THEN <<"an ">> \o t
         ELSE <<"a ">> \o t

ArticleRule(names) ==
    (output # << >> /\ input.fn = "TypeNameWithArticle" /\ input.s \in names)
        => /\ ~ output[1].panics
           /\ output[1].s = WithArticle(input.s)

\* C21: for every type-name string TypeNameWithArticle returns "null"
\* unchanged, and otherwise the name (pointer marker included) behind "an "
\* when its first letter behind the pointer marker is a, e, i or o in
\* either case, and behind "a " when it is not or when the name is empty.
C21_TypeNameWithArticle ==
    ArticleRule(ArticleNames)

\* C21, for the names that hold a letter, and for the empty name: the rule
\* holds of them.
C21_ExceptAsterisksOnly ==
    ArticleRule({ t \in ArticleNames : t = << >> \/ FirstLetter(t) # "" })

\* ----------------------------------------------------------------- C23
\* The pairs the comment of CompareMapToStruct lists, as a destination type
\* and a source value of the named Go type; a float is a fractional one,
\* the whole ones being allowed on purpose.
PlainInts == { "int", "int8" }

StringToInt == { <<t, StringVal>> : t \in PlainInts }

IntToString == { <<"string", IntVal(n)>> : n \in (0 - MaxNum)..MaxNum }

BoolToInt == { <<t, BoolVal>> : t \in PlainInts }

FloatToInt ==
    { <<t, FloatVal(h)>> :
          t \in PlainInts, h \in { k \in (0 - 2 * MaxNum)..(2 * MaxNum) : k % 2 = 1 } }

NullToString == { <<"string", NullVal>> }

IntToFloat == { <<"float64", IntVal(n)>> : n \in (0 - MaxNum)..MaxNum }

ValueToPointer ==
    { <<"*string", StringVal>>, <<"*TestStruct", MapVal(EmptyMap)>> }
    \cup { <<"*int", IntVal(n)>> : n \in (0 - MaxNum)..MaxNum }

NullToPointer == { <<t, NullVal>> : t \in { "*string", "*int", "*uint", "*TestStruct" } }

DocumentedPairs(mismatches, allowed) ==
    (output # << >> /\ input.fn = "DefaultCanConvert")
        => /\ <<input.t, input.v>> \in mismatches => output[1] = Returns(FALSE)
           /\ <<input.t, input.v>> \in allowed => output[1] = Returns(TRUE)

\* C23: under the default predicate a string, an int, a bool or a float for
\* an int field, an int for a string field and null for a string field are
\* mismatches, while an int for a float field, a T for a *T field and null
\* for a *T field are allowed, for source values of those Go types.
C23_DocumentedPairs ==
    DocumentedPairs(
        StringToInt \cup IntToString \cup BoolToInt \cup FloatToInt \cup NullToString,
        IntToFloat \cup ValueToPointer \cup NullToPointer)

\* C23, all pairs but int -> string: they come out as documented.
C23_ExceptIntToString ==
    DocumentedPairs(
        StringToInt \cup BoolToInt \cup FloatToInt \cup NullToString,
        IntToFloat \cup ValueToPointer \cup NullToPointer)

\* ----------------------------------------------------------------- C25
\* A DefaultCanConvert call whose destination is a pointer type and whose
\* value is not null has returned or panicked.
PointerCallOfNonNull ==
    /\ output # << >>
    /\ input.fn = "DefaultCanConvert"
    /\ Kind(input.t) = "ptr"
    /\ IsValid(input.v) /\ ~ (CanAddr(input.v) /\ IsNil(input.v))

RepresentableIn(t, v) ==
    LET k == Kind(IF Kind(t) = "ptr" THEN Elem(t) ELSE t)
        whole == isFloatType(v.k) => v.n % 2 = 0
        n == IF isFloatType(v.k) THEN v.n \div 2 ELSE v.n
    IN  /\ whole
        /\ k = "int8" => n \in Int8Range
        /\ k = "uint8" => n \in Uint8Range
        /\ isIntegerType(k).unsigned => n >= 0

AcceptedNumbersFit(types) ==
    (/\ output # << >>
     /\ input.fn = "DefaultCanConvert"
     /\ input.t \in types
     /\ isIntegerType(IF Kind(input.t) = "ptr" THEN Elem(input.t) ELSE input.t).yes
     /\ IsValid(input.v)
     /\ isFloatType(input.v.k) \/ isIntegerType(input.v.k).yes
     /\ output[1] = Returns(TRUE))
        => RepresentableIn(input.t, input.v)

\* C27: whenever DefaultCanConvert accepts a numeric value for an integer
\* type, the value is representable in that type: no overflow, wrap-around
\* or truncation, so a whole float outside the range of int8 is not
\* accepted for an int8 field.
C27_AcceptedNumbersFit ==
    AcceptedNumbersFit(ConvertTypes)

\* C27, for the integer types of full width: what is accepted fits.
C27_ExceptNarrowTypes ==
    AcceptedNumbersFit({ t \in ConvertTypes :
        Kind(IF Kind(t) = "ptr" THEN Elem(t) ELSE t) \in { "int", "uint" } })

\* ----------------------------------------------------------------- C22
\* The names a dotted name is made of: its pieces between the "." chunks.
RECURSIVE SplitAtDots(_)
SplitAtDots(s) ==
    IF Index(s, ".") = 0 THEN << s >>
    ELSE << SubSeq(s, 1, Index(s, ".") - 1) >>
         \o SplitAtDots(SubSeq(s, Index(s, ".") + 1, Len(s)))

\* Method fn was called on an entry of the result and returned.
MethodReturned(fn) ==
    /\ output # << >>
    /\ input # << >>
    /\ input[1].fn = fn
    /\ ~ output[1].panics

\* C22: the rendering of a field is its ancestors in order and then its
\* name, joined by "." (the bare name when the path is empty);
\* FieldMissing.String() is that rendering, and
\* FieldMismatch.MessageWithField() holds it between its quotes.
C22_FieldNameWithPath ==
    /\ MethodReturned("String") =>
           LET f == results[1].MissingFields[input[1].i]
           IN  /\ SplitAtDots(output[1].s) = f.Path \o << f.Field >>
               /\ f.Path = << >> => output[1].s = f.Field
    /\ MethodReturned("MessageWithField") =>
           LET f == results[1].MismatchedFields[input[1].i]
               s == output[1].s
           IN  /\ s[1] = "expected \""
               /\ Index(s, "\" to be ") > 1
               /\ SplitAtDots(SubSeq(s, 2, Index(s, "\" to be ") - 1))
                      = f.Path \o << f.Field >>

\* String has rendered a missing field that lies two structs deep.
C22_Witness ==
    /\ MethodReturned("String")
    /\ Len(results[1].MissingFields[input[1].i].Path) = 2
    /\ Len(output[1].s) = 5

\* ----------------------------------------------------------------- C30
\* A type name made of asterisks only.
AsterisksOnly(name) ==
    name # << >> /\ FirstLetter(name) = ""

\* C30: for every FieldMismatch the comparison produces with the default
\* hooks, Message(), MessageWithField() and Errors() return without
\* aborting, also when the expected type name is empty or only "*". Stated
\* for the struct types the tests declare and for sources as encoding/json
\* decodes them.
C30_MessagesReturn ==
    (/\ output # << >>
     /\ dst.type \in DOMAIN TestTypes
     /\ JSONShaped(src.m)
     /\ DefaultOpts)
        => ~ output[1].panics

\* C30, for the results none of whose mismatches has a type name made of
\* asterisks only: the three methods return (holds, with every hook drawn).
C30_ExceptAsterisksOnly ==
    (/\ output # << >>
     /\ \A i \in 1..Len(results[1].MismatchedFields) :
            /\ ~ AsterisksOnly(results[1].MismatchedFields[i].Expected)
            /\ ~ AsterisksOnly(results[1].MismatchedFields[i].Actual))
        => ~ output[1].panics

\* ----------------------------------------------------------------- C24
\* The fields a walk of struct type t can report, in the order the claim
\* gives: declaration order, an embedded struct's fields in place of the
\* embedding, the fields of a nested struct right behind the nested field,
\* depth first, down to `levels` nested structs.
RECURSIVE TraversalOrder(_, _, _)
TraversalOrder(t, path, levels) ==
    LET RECURSIVE From(_)
        From(j) ==
            IF j > NumField(t) THEN << >>
            ELSE LET f == FieldAt(t, j)
                     name == parseField(f).name
                 IN  (IF parseField(f).ignore THEN << >>
                      ELSE IF f.Anonymous
                      THEN IF Kind(f.Type) = "struct"
                           THEN TraversalOrder(f.Type, path, levels)
                           ELSE << >>
                      ELSE << [Field |-> name, Path |-> path] >>
                           \o (IF isStructType(f.Type) /\ levels > 0
                               THEN TraversalOrder(StructOf(f.Type),
                                                   Append(path, name), levels - 1)
                               ELSE << >>))
                     \o From(j + 1)
    IN  From(1)

\* Sequence a is b with some of b's elements left out.
RECURSIVE IsSubsequence(_, _)
IsSubsequence(a, b) ==
    IF a = << >> THEN TRUE
    ELSE IF b = << >> THEN FALSE
    ELSE IF Head(a) = Head(b) THEN IsSubsequence(Tail(a), Tail(b))
    ELSE IsSubsequence(a, Tail(b))

Places(list) ==
    [i \in 1..Len(list) |-> [Field |-> list[i].Field, Path |-> list[i].Path]]

\* C24: the entries of MismatchedFields, and of MissingFields, stand in the
\* order the walk visits their fields (declaration order, embedded structs
\* expanded in place, nested fields at the position of the nested field,
\* depth first), not sorted or grouped in any other way.
C24_TraversalOrder ==
    (pc = "done" /\ results # << >>) =>
        /\ IsSubsequence(Places(results[1].MismatchedFields),
                         TraversalOrder(dst.type, << >>, MaxDepth + 1))
        /\ IsSubsequence(Places(results[1].MissingFields),
                         TraversalOrder(dst.type, << >>, MaxDepth + 1))

\* Against {"Inner": {}} the struct { Foo string; Ptr *string; Inner
\* TestStructPtr } misses Foo, Ptr and Inner.Ptr, in that order.
C24_Witness ==
    /\ pc = "done" /\ results # << >>
    /\ dst.type = "TestStructMixed"
    /\ Places(results[1].MissingFields)
           = << [Field |-> <<"Foo">>, Path |-> << >>],
                [Field |-> <<"Ptr">>, Path |-> << >>],
                [Field |-> <<"Ptr">>, Path |-> << <<"Inner">> >>] >>

\* ----------------------------------------------------------------- C26
\* The walk stands at the nested-recursion step of a field: the field is
\* present, the default predicate judged its value convertible, and its
\* declared type is a struct or a pointer to a struct.
AtNestedStep ==
    /\ AtComparedField
    /\ lopts[1].ConvertibleFunc = "DefaultCanConvert"
    /\ parseField(CurField).name \in DOMAIN Top.src
    /\ DefaultCanConvert(CurField.Type, Top.src[parseField(CurField).name])
           = Returns(TRUE)
    /\ isStructType(CurField.Type)

NestedStepConverts(excluded(_, _)) ==
    (/\ AtNestedStep
     /\ ~ excluded(CurField, Top.src[parseField(CurField).name]))
        => /\ Top.src[parseField(CurField).name].k = "map[string]interface {}"
           /\ pc' = "walk"
           /\ Len(stack') = Len(stack) + 1
           /\ stack'[Len(stack')].src = Top.src[parseField(CurField).name].m

TestTypesAndJSON ==
    dst.type \in DOMAIN TestTypes /\ JSONShaped(src.m)

NullUnderPointerOrNotJSON(f, v) ==
    NullUnderPointer(f, v) \/ ~ JSONShaped(src.m)

NotTestTypesAndJSON(f, v) ==
    ~ TestTypesAndJSON

\* C26: whenever the walk reaches the nested-recursion step for a field,
\* the source value at that key is a nested string-keyed mapping, so its
\* conversion to a mapping does not fail and the walk recurses into it.
\* Stated for the struct types the tests declare and for sources as
\* encoding/json decodes them.
C26_NestedSourceIsMapping ==
    [][NestedStepConverts(NotTestTypesAndJSON)]_vars

\* C26, except for a null under a pointer to a struct and for sources that
\* encoding/json does not produce: the value is a mapping and the walk
\* recurses (holds).
C26_ExceptNullUnderPointer ==
    [][NestedStepConverts(NullUnderPointerOrNotJSON)]_vars

\* ----------------------------------------------------------------- C29
\* The nesting depth of a source: the number of mappings inside mappings
\* below its top level.
RECURSIVE NestingDepth(_)
NestingDepth(m) ==
    LET inner == { 1 + NestingDepth(m[k].m) : k \in { j \in DOMAIN m : IsMapping(m[j]) } }
    IN  IF inner = {} THEN 0
        ELSE CHOOSE d \in inner : \A e \in inner : e <= d

\* The calls of compare on the stack that were made for a nested field.
NestedCalls ==
    Cardinality({ d \in 1..Len(stack) : stack[d].nested })

\* A step of the walk leaves the calls below the innermost one as they are
\* and moves the innermost one to its next field, once, unless it returns
\* or aborts.
VisitsNextField ==
    pc = "walk" =>
        \/ pc' = "panic"
        \/ /\ Len(stack') = Len(stack) - 1
           /\ Top.i = NumField(Top.t) + 1
           /\ stack' = SubSeq(stack, 1, Len(stack) - 1)
        \/ /\ Len(stack') \in { Len(stack), Len(stack) + 1 }
           /\ Top.i <= NumField(Top.t)
           /\ SubSeq(stack', 1, Len(stack)) = [stack EXCEPT ![Len(stack)].i = @ + 1]
           /\ Len(stack') = Len(stack) + 1 => stack'[Len(stack')].i = 1

\* C29: the walk ends for every destination type, a self-referential one
\* included, and every source of finite depth: the nested recursion is
\* never deeper than the source is nested, and each call visits each
\* declared field once.
C29_WalkTerminates ==
    /\ <>Ended
    /\ [](pc = "walk" => NestedCalls <= NestingDepth(src.m))
    /\ [][VisitsNextField]_vars

\* The walk of Node, whose Next field points to a Node, stands two nested
\* calls deep in a source nested two deep.
C29_Witness ==
    /\ pc = "walk"
    /\ dst.type = "Node"
    /\ NestedCalls = 2
    /\ NestingDepth(src.m) = 2

\* ----------------------------------------------------------------- C28
\* The scheduler has exchanged the two invocations.
Exchanged ==
    output' = << Private >> /\ Private' = output[1]

\* C28: concurrent invocations that share one options object, the
\* destination type and the source do not interfere: under every
\* interleaving no step writes the shared options, destination or source,
\* a step of one invocation leaves what belongs to the other as it is, and
\* each invocation returns what the same call returns when run alone.
C28_NoInterference ==
    /\ [][opts' = opts /\ dst' = dst /\ src' = src]_vars
    /\ [][input' = << >> => (Exchanged \/ output' = output)]_vars
    /\ [](input # << >> /\ pc = "done" =>
              /\ [results |-> results, err |-> err] = input[1].a
              /\ [results |-> results, err |-> err] = input[1].b)

\* Both invocations are inside their walk, at different fields, each with
\* an entry in a list of its own.
C28_Witness ==
    /\ input = << >>
    /\ pc = "walk" /\ output[1].pc = "walk"
    /\ stack # output[1].stack
    /\ results[1].MissingFields # << >>
    /\ output[1].results[1].MismatchedFields # << >>
    /\ results # output[1].results
====
